---- MODULE Spec2Model ----
(***************************************************************************)
(* Verification model of the Ermis message router of the Zeus ecosystem:   *)
(* the request-response correlators, the messenger with its mailboxes and  *)
(* drain loop, the component receivers, and Olympus routing.               *)
(*                                                                         *)
(* Time is relative: every timer is the number of clock ticks since (or    *)
(* until) an event, capped where larger values are indistinguishable to    *)
(* the code.  A thread that is able to run does so before the clock        *)
(* advances (TickRR and the other Tick actions).  The correlator of        *)
(* ermis_request_response.py is clocked in ticks of five seconds, the      *)
(* length of its cleanup interval; timeouts are whole numbers of ticks.    *)
(***************************************************************************)
EXTENDS Integers, Sequences, FiniteSets, TLC

----------------------------------------------------------------------------
(* Bounds of the model *)

MaxRequests == 1
MaxHandlers == 2
MaxWaiters == 1
MaxCancels == 1
MaxSweepers == 1
MaxTimeout == 2
MaxMessages == 3
MaxMailbox == 1
MaxWorkers == 2
MaxDrains == 1
MaxCalls == 2
MaxWait == 1
MaxRHSweepers == 1
MaxWidth == 2
MaxOverDepth == 2
MaxLimit == 2
MaxRateThreads == 2
MaxChecks == 4
MaxValidations == 11
MaxCustomRoutes == 2
MaxStages == 3
MaxRuns == 2
MaxRetries == 2
MaxBroadcasts == 2
MaxClock == 1
MaxStarts == 2

(* Program constants *)

RRDefaultSeconds == 30
RRCleanupSeconds == 5

\* The same in clock ticks of the correlator (five seconds each).
RRDefaultTimeout == RRDefaultSeconds \div 5

RRCleanupInterval == RRCleanupSeconds \div 5

QUEUE_SIZE == 1000

GODS == <<"zeus", "athena", "cronos", "lightning", "ermis">>

----------------------------------------------------------------------------
VARIABLES
    rrPending,   \* RequestResponseManager.pending_requests and the PendingRequest objects
    rrSlot,      \* PendingRequest.response_queue (Queue(maxsize=1)) of every created request
    rrNext,      \* number of request ids handed out by create_request so far
    rrRunning,   \* RequestResponseManager.running
    rrSweep,     \* the _cleanup_expired threads
    rrWait,      \* calls of wait_for_response
    rrHand,      \* calls of handle_response
    rrCancel,    \* calls of cancel_request made so far
    loadable,         \* the gods whose ermis_receiver module can be imported
    receivers,        \* ErmisMessenger.receivers (its keys)
    receiversLoaded,  \* ErmisMessenger._receivers_loaded
    mRunning,         \* ErmisMessenger.running
    mQueues,          \* ErmisMessenger.queues: one mailbox per god
    mDrain,           \* the _route_messages threads
    mRouter,          \* ErmisMessenger.router_thread (0: None)
    mCtl,             \* position of the caller of ErmisMessenger.stop
    drained,          \* ids of the messages a _route_messages thread has dequeued and processed
    rcvQueue,         \* <god>_receiver.message_queue
    rcvRunning,       \* <god>_receiver.running
    rcvWorker,        \* the process_messages threads of every receiver
    rcvThread,        \* <god>_receiver.worker_thread (0: None)
    rcvCtl,           \* position of the caller of <god>_receiver.stop
    handled,          \* per receiver, the messages its handlers were invoked with, in order
    sendLog,          \* the send_message_full calls that have returned, in order
    rhPending,        \* ResponseHandler.pending_requests
    rhSlot,           \* PendingRequest.response_queue of every registered request
    rhRunning,        \* ResponseHandler.running
    rhSweep,          \* the _cleanup_expired_requests threads
    call,             \* calls of send_request and send_request_and_wait
    rateLog,          \* RateLimiter.requests: per sender and operation, the entries in the window
    auditLog,         \* SecurityValidator.audit_log
    san,              \* a validate_request call on a request with data, and what was delivered for it
    rl,               \* RateLimiter.requests of one key, and the check_rate calls on it
    val,              \* validate_request called again and again with one request
    customRoutes,     \* the entries add_custom_route has put into Olympus.request_type_mapping
    pipe,             \* a RequestPipeline and its executions
    ur,               \* a unified request, and what _handle_unified_request did with it
    bc                \* the broadcast_message calls made, and the Message objects created

rrVars == <<rrPending, rrSlot, rrNext, rrRunning, rrSweep, rrWait, rrHand, rrCancel>>

msgVars == <<loadable, receivers, receiversLoaded, mRunning, mQueues, mDrain, mRouter, mCtl,
             drained>>

rcvVars == <<rcvQueue, rcvRunning, rcvWorker, rcvThread, rcvCtl, handled>>

rhVars == <<rhPending, rhSlot, rhRunning, rhSweep>>

reqVars == <<call, rateLog, auditLog>>

\* The state of the validator, the rate limiter, Olympus and the pipelines
\* that the messenger's threads leave alone.
extVars == <<san, rl, val, customRoutes, pipe, ur, bc>>

\* The state of the messenger, the receivers and the correlators.
coreVars == <<rrVars, msgVars, rcvVars, sendLog, rhVars, reqVars>>

vars == <<coreVars, extVars>>

\* What the actions of the request-response correlator leave alone.
nonRRVars == <<msgVars, rcvVars, sendLog, rhVars, reqVars, extVars>>

Min(a, b) == IF a < b THEN a ELSE b

Max(a, b) == IF a < b THEN b ELSE a

NoData == 0

----------------------------------------------------------------------------
(* RequestResponseManager (ermis_request_response.py) *)

RIds == 1..MaxRequests

\* A timeout argument: None (left out), or a number of ticks.
NoneT == -1

Timeouts == {NoneT} \cup (0..MaxTimeout)

\* Python's "timeout or default": None and 0 are both falsy.
OrDefault(timeout, default) == IF timeout # NoneT /\ timeout # 0 THEN timeout ELSE default

RRAgeCap == Max(MaxTimeout, RRDefaultTimeout) + 1

NoRequest == [created |-> FALSE, present |-> FALSE, age |-> 0, timeout |-> 0, gone |-> "no"]

IdleWait == [pc |-> "idle", id |-> 0, T |-> NoneT, rem |-> 0, elapsed |-> 0, ok |-> FALSE,
             data |-> NoData, why |-> "none"]

IdleHand == [pc |-> "idle", id |-> 0, ret |-> FALSE, put |-> FALSE, afterTrue |-> FALSE,
             late |-> FALSE]

NoSweeper == [pc |-> "none", expired |-> <<>>, sleepLeft |-> 0]

RRInit ==
    /\ rrPending = [i \in RIds |-> NoRequest]
    /\ rrSlot = [i \in RIds |-> <<>>]
    /\ rrNext = 0
    /\ rrRunning = FALSE
    /\ rrSweep = [t \in 1..MaxSweepers |-> NoSweeper]
    /\ rrWait = [w \in 1..MaxWaiters |-> IdleWait]
    /\ rrHand = [h \in 1..MaxHandlers |-> IdleHand]
    /\ rrCancel = <<>>

\* A faulty expiry test: it never fires
RRExpired_Never(p) == FALSE

\* time.time() - pending.request_time > pending.timeout
RRExpired(p) == p.age > p.timeout

\* A faulty _remove_request: it leaves the entry in the map
RRRemoved_NoPop(pend, id, cause) ==
    [pend EXCEPT ![id].gone = IF pend[id].present THEN cause ELSE pend[id].gone]

\* _remove_request: pending_requests.pop(request_id, None) under the lock.
\* "gone" remembers why the entry first left the map.
RRRemoved(pend, id, cause) ==
    [pend EXCEPT ![id].present = FALSE,
                 ![id].gone = IF pend[id].present THEN cause ELSE pend[id].gone]

\* create_request: a fresh uuid4, the entry stored under the lock.
RRCreateRequest(timeout) ==
    /\ rrNext < MaxRequests
    /\ rrNext' = rrNext + 1
    /\ rrPending' = [rrPending EXCEPT ![rrNext + 1] =
            [created |-> TRUE, present |-> TRUE, age |-> 0,
             timeout |-> OrDefault(timeout, RRDefaultTimeout), gone |-> "no"]]
    /\ UNCHANGED <<rrSlot, rrRunning, rrSweep, rrWait, rrHand, rrCancel, nonRRVars>>

\* wait_for_response, up to the blocking get: the lookup under the lock and
\* the computation of remaining_time.
RRWaitCall(w, id, T) ==
    /\ rrWait[w].pc = "idle"
    /\ rrPending[id].created
    /\ LET p == rrPending[id]
           wait_timeout == OrDefault(T, p.timeout)
           remaining == wait_timeout - p.age
       IN  rrWait' = [rrWait EXCEPT ![w] =
             IF ~p.present
             THEN [IdleWait EXCEPT !.pc = "done", !.id = id, !.T = T, !.why = "not found"]
             ELSE IF remaining <= 0
             THEN [IdleWait EXCEPT !.pc = "remove", !.id = id, !.T = T, !.why = "timed out"]
             ELSE [IdleWait EXCEPT !.pc = "blocked", !.id = id, !.T = T, !.rem = remaining]]
    /\ UNCHANGED <<rrPending, rrSlot, rrNext, rrRunning, rrSweep, rrHand, rrCancel, nonRRVars>>

\* response_queue.get(timeout=remaining_time) returns an item.
RRWaitGet(w) ==
    /\ rrWait[w].pc = "blocked"
    /\ rrSlot[rrWait[w].id] # <<>>
    /\ rrWait' = [rrWait EXCEPT ![w].pc = "remove", ![w].ok = TRUE,
                                ![w].data = Head(rrSlot[rrWait[w].id]), ![w].why = "response"]
    /\ rrSlot' = [rrSlot EXCEPT ![rrWait[w].id] = <<>>]
    /\ UNCHANGED <<rrPending, rrNext, rrRunning, rrSweep, rrHand, rrCancel, nonRRVars>>

\* response_queue.get(timeout=remaining_time) raises Empty.
RRWaitTimeout(w) ==
    /\ rrWait[w].pc = "blocked"
    /\ rrSlot[rrWait[w].id] = <<>>
    /\ rrWait[w].rem = 0
    /\ rrWait' = [rrWait EXCEPT ![w].pc = "remove", ![w].why = "timed out"]
    /\ UNCHANGED <<rrPending, rrSlot, rrNext, rrRunning, rrSweep, rrHand, rrCancel, nonRRVars>>

\* The _remove_request that ends every path of wait_for_response that found the entry.
RRWaitRemove(w) ==
    /\ rrWait[w].pc = "remove"
    /\ rrPending' = RRRemoved(rrPending, rrWait[w].id,
                              IF rrWait[w].ok THEN "response" ELSE "timeout")
    /\ rrWait' = [rrWait EXCEPT ![w].pc = "done"]
    /\ UNCHANGED <<rrSlot, rrNext, rrRunning, rrSweep, rrHand, rrCancel, nonRRVars>>

\* handle_response, the lookup under the lock and the expiry test.
RRHandleCall(h, id) ==
    /\ rrHand[h].pc = "idle"
    /\ rrPending[id].created
    /\ LET p == rrPending[id]
           seen == \E k \in 1..MaxHandlers :
                      rrHand[k].pc = "done" /\ rrHand[k].id = id /\ rrHand[k].ret
           begun == [IdleHand EXCEPT !.id = id, !.afterTrue = seen,
                                    !.late = p.gone \in {"timeout", "cancel"}]
       IN  rrHand' = [rrHand EXCEPT ![h] =
             IF ~p.present THEN [begun EXCEPT !.pc = "done"]
             ELSE IF RRExpired(p) THEN [begun EXCEPT !.pc = "remove"]
             ELSE [begun EXCEPT !.pc = "put"]]
    /\ UNCHANGED <<rrPending, rrSlot, rrNext, rrRunning, rrSweep, rrWait, rrCancel, nonRRVars>>

\* handle_response: response_queue.put_nowait(response_data); Full is swallowed.
\* The data of call h is the token h.
RRHandlePut(h) ==
    /\ rrHand[h].pc = "put"
    /\ IF rrSlot[rrHand[h].id] = <<>>
       THEN /\ rrSlot' = [rrSlot EXCEPT ![rrHand[h].id] = <<h>>]
            /\ rrHand' = [rrHand EXCEPT ![h].pc = "done", ![h].ret = TRUE, ![h].put = TRUE]
       ELSE /\ rrHand' = [rrHand EXCEPT ![h].pc = "done"]
            /\ UNCHANGED rrSlot
    /\ UNCHANGED <<rrPending, rrNext, rrRunning, rrSweep, rrWait, rrCancel, nonRRVars>>

\* handle_response on an expired entry: _remove_request, return False.
RRHandleRemove(h) ==
    /\ rrHand[h].pc = "remove"
    /\ rrPending' = RRRemoved(rrPending, rrHand[h].id, "expired")
    /\ rrHand' = [rrHand EXCEPT ![h].pc = "done"]
    /\ UNCHANGED <<rrSlot, rrNext, rrRunning, rrSweep, rrWait, rrCancel, nonRRVars>>

\* cancel_request: "return self._remove_request(request_id) is not None", and
\* _remove_request returns nothing.
RRCancelRequest(id) ==
    /\ Len(rrCancel) < MaxCancels
    /\ rrPending[id].created
    /\ rrPending' = RRRemoved(rrPending, id, "cancel")
    /\ rrCancel' = Append(rrCancel, [id |-> id, had |-> rrPending[id].present, ret |-> FALSE])
    /\ UNCHANGED <<rrSlot, rrNext, rrRunning, rrSweep, rrWait, rrHand, nonRRVars>>

\* The bound on cleanup threads leaves room for start.
RRCanStart == rrRunning \/ \E t \in 1..MaxSweepers : rrSweep[t].pc = "none"

\* start: a new cleanup thread unless already running.
RRStartedSweep ==
    IF rrRunning THEN rrSweep
    ELSE LET t == CHOOSE u \in 1..MaxSweepers :
                     /\ rrSweep[u].pc = "none"
                     /\ \A v \in 1..(u - 1) : rrSweep[v].pc # "none"
         IN  [rrSweep EXCEPT ![t] = [NoSweeper EXCEPT !.pc = "sleep"]]

\* RequestResponseManager.start called on its own.
RRStart ==
    /\ RRCanStart
    /\ rrSweep' = RRStartedSweep
    /\ rrRunning' = TRUE
    /\ UNCHANGED <<rrPending, rrSlot, rrNext, rrWait, rrHand, rrCancel, nonRRVars>>

\* stop: running = False; the join(timeout=1.0) changes nothing.
RRStop ==
    /\ rrRunning' = FALSE
    /\ UNCHANGED <<rrPending, rrSlot, rrNext, rrSweep, rrWait, rrHand, rrCancel, nonRRVars>>

RECURSIVE RRExpiredIds(_, _)
RRExpiredIds(pend, i) ==
    IF i > MaxRequests THEN <<>>
    ELSE (IF pend[i].present /\ RRExpired(pend[i]) THEN <<i>> ELSE <<>>)
         \o RRExpiredIds(pend, i + 1)

\* _cleanup_expired: the loop test and the scan under the lock.
RRSweepScan(t) ==
    /\ rrSweep[t].pc = "sleep"
    /\ rrSweep[t].sleepLeft = 0
    /\ rrSweep' = [rrSweep EXCEPT ![t] =
          IF ~rrRunning THEN NoSweeper
          ELSE IF RRExpiredIds(rrPending, 1) = <<>>
          THEN [NoSweeper EXCEPT !.pc = "sleep", !.sleepLeft = RRCleanupInterval]
          ELSE [NoSweeper EXCEPT !.pc = "remove", !.expired = RRExpiredIds(rrPending, 1)]]
    /\ UNCHANGED <<rrPending, rrSlot, rrNext, rrRunning, rrWait, rrHand, rrCancel, nonRRVars>>

\* _cleanup_expired: one _remove_request of the loop over expired_requests,
\* then time.sleep(cleanup_interval).
RRSweepRemove(t) ==
    /\ rrSweep[t].pc = "remove"
    /\ rrPending' = RRRemoved(rrPending, Head(rrSweep[t].expired), "sweeper")
    /\ rrSweep' = [rrSweep EXCEPT ![t] =
          IF Len(rrSweep[t].expired) = 1
          THEN [NoSweeper EXCEPT !.pc = "sleep", !.sleepLeft = RRCleanupInterval]
          ELSE [rrSweep[t] EXCEPT !.expired = Tail(rrSweep[t].expired)]]
    /\ UNCHANGED <<rrSlot, rrNext, rrRunning, rrWait, rrHand, rrCancel, nonRRVars>>

\* A thread of the correlator that can take a step without time passing.
RRReady ==
    \/ \E w \in 1..MaxWaiters :
          \/ rrWait[w].pc = "remove"
          \/ rrWait[w].pc = "blocked" /\ (rrSlot[rrWait[w].id] # <<>> \/ rrWait[w].rem = 0)
    \/ \E h \in 1..MaxHandlers : rrHand[h].pc \in {"put", "remove"}
    \/ \E t \in 1..MaxSweepers :
          \/ rrSweep[t].pc = "remove"
          \/ rrSweep[t].pc = "sleep" /\ rrSweep[t].sleepLeft = 0

\* One clock tick passes.
TickRR ==
    /\ ~RRReady
    /\ rrPending' = [i \in RIds |->
          IF rrPending[i].created
          THEN [rrPending[i] EXCEPT !.age = Min(@ + 1, RRAgeCap)]
          ELSE rrPending[i]]
    /\ rrWait' = [w \in 1..MaxWaiters |->
          IF rrWait[w].pc = "blocked"
          THEN [rrWait[w] EXCEPT !.rem = @ - 1,
                                 !.elapsed = Min(@ + 1, RRAgeCap)]
          ELSE rrWait[w]]
    /\ rrSweep' = [t \in 1..MaxSweepers |->
          IF rrSweep[t].pc = "sleep"
          THEN [rrSweep[t] EXCEPT !.sleepLeft = @ - 1]
          ELSE rrSweep[t]]
    /\ UNCHANGED <<rrSlot, rrNext, rrRunning, rrHand, rrCancel, nonRRVars>>

RRNext ==
    \/ \E T \in Timeouts : RRCreateRequest(T)
    \/ \E w \in 1..MaxWaiters, id \in RIds, T \in Timeouts : RRWaitCall(w, id, T)
    \/ \E w \in 1..MaxWaiters : RRWaitGet(w)
    \/ \E w \in 1..MaxWaiters : RRWaitTimeout(w)
    \/ \E w \in 1..MaxWaiters : RRWaitRemove(w)
    \/ \E h \in 1..MaxHandlers, id \in RIds : RRHandleCall(h, id)
    \/ \E h \in 1..MaxHandlers : RRHandlePut(h)
    \/ \E h \in 1..MaxHandlers : RRHandleRemove(h)
    \/ \E id \in RIds : RRCancelRequest(id)
    \/ RRStart
    \/ RRStop
    \/ \E t \in 1..MaxSweepers : RRSweepScan(t)
    \/ \E t \in 1..MaxSweepers : RRSweepRemove(t)
    \/ TickRR

----------------------------------------------------------------------------
(* ResponseHandler (ermis_response_handler.py), clocked in seconds *)

RHCleanupInterval == 1

\* The request ids of the send_request_and_wait calls: call c registers id c.
RHIds == 1..MaxCalls

NoEntry == [present |-> FALSE, age |-> 0, timeout |-> 0]

NoRHSweeper == [pc |-> "none", sleepLeft |-> 0]

\* The dict the cleanup thread puts into the slot of an expired request.
TimeoutResponse == [kind |-> "timeout", id |-> 0]

\* The response handler after construction, with room for the given number
\* of cleanup threads.
RHIdle(sweepers) ==
    /\ rhPending = [i \in RHIds |-> NoEntry]
    /\ rhSlot = [i \in RHIds |-> <<>>]
    /\ rhRunning = FALSE
    /\ rhSweep = [t \in 1..sweepers |-> NoRHSweeper]

RHInit == RHIdle(MaxRHSweepers)

\* The bound on cleanup threads leaves room for start.
RHCanStart == \E t \in DOMAIN rhSweep : rhSweep[t].pc = "none"

\* start: running = True and a new cleanup thread, whether or not one is alive.
RHStartedSweep ==
    LET t == CHOOSE u \in DOMAIN rhSweep :
                 /\ rhSweep[u].pc = "none"
                 /\ \A v \in 1..(u - 1) : rhSweep[v].pc # "none"
    IN  [rhSweep EXCEPT ![t] = [NoRHSweeper EXCEPT !.pc = "sleep"]]

\* handle_response(response): does it find the pending request?
RHMatches(data) == data.request_id \in RHIds /\ rhPending[data.request_id].present

\* handle_response: the entry is deleted under the lock.
RHHandledPending(data) ==
    IF RHMatches(data) THEN [rhPending EXCEPT ![data.request_id].present = FALSE]
    ELSE rhPending

\* handle_response: put_nowait into the slot of the request; Full is swallowed.
RHHandledSlot(data, response) ==
    IF RHMatches(data) /\ rhSlot[data.request_id] = <<>>
    THEN [rhSlot EXCEPT ![data.request_id] = <<response>>]
    ELSE rhSlot

----------------------------------------------------------------------------
(* ErmisMessenger (ermis_messenger.py) and the receivers (<god>/ermis_receiver.py) *)

GodSet == {GODS[i] : i \in 1..Len(GODS)}

\* _load_receivers: every god but ermis has a receiver module.
RcvGods == GodSet \ {"ermis"}

\* The send_message_full calls made: source, destination and message type.
Sends ==
    { <<"athena", "zeus", "test_message">>,
      <<"zeus", "athena", "test_message">>,
      <<"zeus", "athena", "response">>,
      <<"lightning", "orchestrator", "test_message">> }

\* The receivers that are started and stopped.
Started == {"zeus", "athena"}

\* Capacity of a mailbox: queue.Queue(maxsize=QUEUE_SIZE), cut down to the bound.
MailboxSize == Min(QUEUE_SIZE, MaxMailbox)

NoMsg == [id |-> 0, source |-> "none", destination |-> "none", msg_type |-> "none",
          data |-> [request_id |-> 0, response_to |-> "none"], request_id |-> 0]

NoDict == [id |-> 0, source |-> "none", type |-> "none",
           data |-> [request_id |-> 0, response_to |-> "none"]]

\* Message(source, destination, content, msg_type): content is a dict, so data
\* is content; request_id keeps its default None (0).  id numbers the Message
\* object; the string self.id is MessageId below.
Message(id, source, destination, content, msg_type) ==
    [id |-> id, source |-> source, destination |-> destination, msg_type |-> msg_type,
     data |-> content, request_id |-> 0]

\* The dict handed to receive_message, by send_message_full and by the drain loop.
RcvDict(msg) == [id |-> msg.id, source |-> msg.source, type |-> msg.msg_type, data |-> msg.data]

NoDrain == [pc |-> "none", i |-> 1, msg |-> NoMsg]

NoWorker == [pc |-> "none", msg |-> NoDict, replied |-> FALSE]

\* The messenger and the receivers after construction, with room for the
\* given number of drain threads.
MessengerIdle(drains) ==
    /\ receivers = {}
    /\ receiversLoaded = FALSE
    /\ mRunning = FALSE
    /\ mQueues = [g \in GodSet |-> <<>>]
    /\ mDrain = [d \in 1..drains |-> NoDrain]
    /\ mRouter = 0
    /\ mCtl = "idle"
    /\ drained = {}
    /\ rcvQueue = [g \in RcvGods |-> <<>>]
    /\ rcvRunning = [g \in RcvGods |-> FALSE]
    /\ rcvWorker = [g \in RcvGods |-> [k \in 1..MaxWorkers |-> NoWorker]]
    /\ rcvThread = [g \in RcvGods |-> 0]
    /\ rcvCtl = [g \in RcvGods |-> "idle"]
    /\ handled = [g \in RcvGods |-> <<>>]
    /\ sendLog = <<>>

MsgIdle == MessengerIdle(MaxDrains)

MsgInit == loadable \in {RcvGods, RcvGods \ {"athena"}} /\ MsgIdle

\* self.receivers once "if not self._receivers_loaded: self._load_receivers()"
\* has run: the receivers whose module imports.
LoadedReceivers == IF receiversLoaded THEN receivers ELSE loadable

\* The branch send_message_full takes.
SendPath(source, destination) ==
    IF source \notin GodSet \/ destination \notin GodSet THEN "invalid"
    ELSE IF destination \in LoadedReceivers THEN "direct"
    ELSE "queue"

\* A faulty send_message_full: the put never finds the mailbox full
SendResult_NoLimit(source, destination) == SendPath(source, destination) # "invalid"

\* The value send_message_full returns.  On the queue branch the put waits up
\* to TIMEOUT for a free place; a call that finds the mailbox full returns
\* False, and a put that found room in time is a call made when there is room.
SendResult(source, destination) ==
    \/ SendPath(source, destination) = "direct"
    \/ /\ SendPath(source, destination) = "queue"
       /\ Len(mQueues[destination]) < MailboxSize

\* receive_message: self.message_queue.put(message), an unbounded queue.
Received(q, d) == Append(q, d)

\* send_message_full(msg.source, msg.destination, ...), its effect on the
\* messenger and on the receiver of the destination, and its entry in the log.
SendMessageFullOf(msg) ==
    LET path == SendPath(msg.source, msg.destination)
        ok == SendResult(msg.source, msg.destination)
    IN  /\ receiversLoaded' = (receiversLoaded \/ path # "invalid")
        /\ receivers' = IF path = "invalid" THEN receivers ELSE LoadedReceivers
        /\ rcvQueue' = IF path = "direct"
                       THEN [rcvQueue EXCEPT ![msg.destination] = Received(@, RcvDict(msg))]
                       ELSE rcvQueue
        /\ mQueues' = IF path = "queue" /\ ok
                      THEN [mQueues EXCEPT ![msg.destination] = Append(@, msg)]
                      ELSE mQueues
        /\ sendLog' = Append(sendLog, [msg |-> msg, path |-> path, ret |-> ok])

\* A call of send_message_full(source, destination, content, msg_type).
SendMessageFull(source, destination, msg_type) ==
    /\ Len(sendLog) < MaxMessages
    /\ SendMessageFullOf(Message(Len(sendLog) + 1, source, destination,
                                 [request_id |-> 0, response_to |-> "none"], msg_type))
    /\ UNCHANGED <<loadable, mRunning, mDrain, mRouter, mCtl, drained>>
    /\ UNCHANGED <<rcvRunning, rcvWorker, rcvThread, rcvCtl, handled>>
    /\ UNCHANGED <<rrVars, rhVars, reqVars, extVars>>

\* ErmisMessenger.start: receivers loaded once, a new drain thread, and both
\* correlators started.  The caller is not inside stop.
MessengerStart ==
    /\ mCtl = "idle"
    /\ \E d \in DOMAIN mDrain : mDrain[d].pc = "none"
    /\ RHCanStart
    /\ RRCanStart
    /\ receivers' = LoadedReceivers
    /\ receiversLoaded' = TRUE
    /\ mRunning' = TRUE
    /\ LET d == CHOOSE e \in DOMAIN mDrain :
                    /\ mDrain[e].pc = "none"
                    /\ \A f \in 1..(e - 1) : mDrain[f].pc # "none"
       IN  /\ mDrain' = [mDrain EXCEPT ![d] = [NoDrain EXCEPT !.pc = "top"]]
           /\ mRouter' = d
    /\ rhRunning' = TRUE
    /\ rhSweep' = RHStartedSweep
    /\ rrRunning' = TRUE
    /\ rrSweep' = RRStartedSweep
    /\ UNCHANGED <<loadable, mQueues, mCtl, drained, rcvVars, sendLog>>
    /\ UNCHANGED <<rrPending, rrSlot, rrNext, rrWait, rrHand, rrCancel, rhPending, rhSlot>>
    /\ UNCHANGED <<reqVars, extVars>>

\* ErmisMessenger.stop, up to the join of the router thread.
MessengerStopBegin ==
    /\ mCtl = "idle"
    /\ mRunning' = FALSE
    /\ mCtl' = "joining"
    /\ UNCHANGED <<loadable, receivers, receiversLoaded, mQueues, mDrain, mRouter, drained>>
    /\ UNCHANGED <<rcvVars, sendLog, rrVars, rhVars>>
    /\ UNCHANGED <<reqVars, extVars>>

\* ErmisMessenger.stop: the join has returned (or there was no router
\* thread); both correlators are stopped.
MessengerStopJoined ==
    /\ mCtl = "joining"
    /\ IF mRouter = 0 THEN TRUE ELSE mDrain[mRouter].pc = "none"
    /\ mCtl' = "idle"
    /\ rhRunning' = FALSE
    /\ rrRunning' = FALSE
    /\ UNCHANGED <<loadable, receivers, receiversLoaded, mRunning, mQueues, mDrain, mRouter,
                   drained>>
    /\ UNCHANGED <<rcvVars, sendLog, rhPending, rhSlot, rhSweep>>
    /\ UNCHANGED <<rrPending, rrSlot, rrNext, rrSweep, rrWait, rrHand, rrCancel>>
    /\ UNCHANGED <<reqVars, extVars>>

\* _route_messages: "while self.running".  A pass over empty mailboxes
\* changes nothing, so the test is taken when there is something to do.
DrainLoop(d) ==
    /\ mDrain[d].pc = "top"
    /\ ~mRunning \/ \E g \in GodSet : mQueues[g] # <<>>
    /\ mDrain' = [mDrain EXCEPT ![d] =
          IF mRunning THEN [NoDrain EXCEPT !.pc = "scan"] ELSE NoDrain]
    /\ UNCHANGED <<loadable, receivers, receiversLoaded, mRunning, mQueues, mRouter, mCtl,
                   drained>>
    /\ UNCHANGED <<rcvVars, sendLog, rrVars, rhVars>>
    /\ UNCHANGED <<reqVars, extVars>>

\* The mailboxes from position i of GODS on that hold a message.
DrainNext(i) == {j \in i..Len(GODS) : mQueues[GODS[j]] # <<>>}

\* _route_messages: "for god in GODS: msg = self.queues[god].get_nowait()",
\* Empty skipped, up to the next message or the end of the pass.
DrainGet(d) ==
    /\ mDrain[d].pc = "scan"
    /\ IF DrainNext(mDrain[d].i) = {}
       THEN /\ mDrain' = [mDrain EXCEPT ![d] = [NoDrain EXCEPT !.pc = "top"]]
            /\ UNCHANGED mQueues
       ELSE LET j == CHOOSE k \in DrainNext(mDrain[d].i) :
                         \A l \in DrainNext(mDrain[d].i) : k <= l
            IN  /\ mDrain' = [mDrain EXCEPT ![d] =
                       [pc |-> "got", i |-> j, msg |-> Head(mQueues[GODS[j]])]]
                /\ mQueues' = [mQueues EXCEPT ![GODS[j]] = Tail(@)]
    /\ UNCHANGED <<loadable, receivers, receiversLoaded, mRunning, mRouter, mCtl, drained>>
    /\ UNCHANGED <<rcvVars, sendLog, rrVars, rhVars>>
    /\ UNCHANGED <<reqVars, extVars>>

\* _route_messages, the body for one message.  A response goes to
\* response_handler.handle_response(msg.data) (msg.request_id is None for
\* every message these mailboxes receive, so request_response_manager is not
\* called); a unified request is the matter of HandleUnifiedRequest; any
\* other message is handed to the receiver of the god if that is registered
\* and running, and is dropped otherwise.
DrainDeliver(d) ==
    /\ mDrain[d].pc = "got"
    /\ mDrain[d].msg.msg_type # "unified_request"
    /\ LET msg == mDrain[d].msg
           god == GODS[mDrain[d].i]
       IN  /\ IF msg.msg_type = "response"
              THEN /\ rhPending' = RHHandledPending(msg.data)
                   /\ rhSlot' = RHHandledSlot(msg.data, [kind |-> "response", id |-> msg.id])
                   /\ UNCHANGED rcvQueue
              ELSE /\ rcvQueue' = IF god \in receivers /\ rcvRunning[god]
                                  THEN [rcvQueue EXCEPT ![god] = Received(@, RcvDict(msg))]
                                  ELSE rcvQueue
                   /\ UNCHANGED <<rhPending, rhSlot>>
           /\ drained' = drained \cup {msg.id}
           /\ mDrain' = [mDrain EXCEPT ![d] =
                  [pc |-> "scan", i |-> mDrain[d].i + 1, msg |-> NoMsg]]
    /\ UNCHANGED <<loadable, receivers, receiversLoaded, mRunning, mQueues, mRouter, mCtl>>
    /\ UNCHANGED <<rcvRunning, rcvWorker, rcvThread, rcvCtl, handled>>
    /\ UNCHANGED <<sendLog, rrVars, rhRunning, rhSweep>>
    /\ UNCHANGED <<reqVars, extVars>>

\* <god>_receiver.start: a new worker thread unless already running; the
\* thread passes its first "while self.running" and reaches the get.  The
\* caller is not inside stop.
RcvStart(g) ==
    /\ g \in loadable
    /\ rcvCtl[g] = "idle"
    /\ IF rcvRunning[g]
       THEN UNCHANGED <<rcvRunning, rcvWorker, rcvThread>>
       ELSE /\ \E k \in 1..MaxWorkers : rcvWorker[g][k].pc = "none"
            /\ LET k == CHOOSE j \in 1..MaxWorkers :
                            /\ rcvWorker[g][j].pc = "none"
                            /\ \A l \in 1..(j - 1) : rcvWorker[g][l].pc # "none"
               IN  /\ rcvWorker' = [rcvWorker EXCEPT ![g][k] = [NoWorker EXCEPT !.pc = "get"]]
                   /\ rcvThread' = [rcvThread EXCEPT ![g] = k]
            /\ rcvRunning' = [rcvRunning EXCEPT ![g] = TRUE]
    /\ UNCHANGED <<rcvQueue, rcvCtl, handled>>
    /\ UNCHANGED <<msgVars, sendLog, rrVars, rhVars>>
    /\ UNCHANGED <<reqVars, extVars>>

\* <god>_receiver.stop, up to the join.
RcvStopBegin(g) ==
    /\ g \in loadable
    /\ rcvCtl[g] = "idle"
    /\ rcvRunning' = [rcvRunning EXCEPT ![g] = FALSE]
    /\ rcvCtl' = [rcvCtl EXCEPT ![g] = IF rcvThread[g] = 0 THEN "idle" ELSE "joining"]
    /\ UNCHANGED <<rcvQueue, rcvWorker, rcvThread, handled>>
    /\ UNCHANGED <<msgVars, sendLog, rrVars, rhVars>>
    /\ UNCHANGED <<reqVars, extVars>>

\* <god>_receiver.stop: worker_thread.join(timeout=1.0) returns, because the
\* thread has ended or because the second has passed; a worker that is not
\* inside a handler ends within its get(timeout=0.1).
RcvStopJoined(g) ==
    /\ rcvCtl[g] = "joining"
    /\ rcvWorker[g][rcvThread[g]].pc \in {"none", "handling"}
    /\ rcvCtl' = [rcvCtl EXCEPT ![g] = "idle"]
    /\ UNCHANGED <<rcvQueue, rcvRunning, rcvWorker, rcvThread, handled>>
    /\ UNCHANGED <<msgVars, sendLog, rrVars, rhVars>>
    /\ UNCHANGED <<reqVars, extVars>>

\* A faulty get: it leaves the message in the queue
Dequeued_Kept(q) == q

\* What message_queue.get leaves in the queue.
Dequeued(q) == Tail(q)

\* process_messages: message_queue.get(timeout=0.1) returns a message.
WorkerGet(g, k) ==
    /\ rcvWorker[g][k].pc = "get"
    /\ rcvQueue[g] # <<>>
    /\ rcvWorker' = [rcvWorker EXCEPT ![g][k] = [pc |-> "got", msg |-> Head(rcvQueue[g]), replied |-> FALSE]]
    /\ rcvQueue' = [rcvQueue EXCEPT ![g] = Dequeued(@)]
    /\ UNCHANGED <<rcvRunning, rcvThread, rcvCtl, handled>>
    /\ UNCHANGED <<msgVars, sendLog, rrVars, rhVars>>
    /\ UNCHANGED <<reqVars, extVars>>

\* process_messages: get raises Empty and the loop test fails.  While the
\* receiver is running an Empty leads back to the same get.
WorkerEmpty(g, k) ==
    /\ rcvWorker[g][k].pc = "get"
    /\ rcvQueue[g] = <<>>
    /\ ~rcvRunning[g]
    /\ rcvWorker' = [rcvWorker EXCEPT ![g][k] = NoWorker]
    /\ UNCHANGED <<rcvQueue, rcvRunning, rcvThread, rcvCtl, handled>>
    /\ UNCHANGED <<msgVars, sendLog, rrVars, rhVars>>
    /\ UNCHANGED <<reqVars, extVars>>

\* _handle_message: the handler of the message type (or the default handler)
\* is invoked with the message.
WorkerInvoke(g, k) ==
    /\ rcvWorker[g][k].pc = "got"
    /\ handled' = [handled EXCEPT ![g] = Append(@, rcvWorker[g][k].msg)]
    /\ rcvWorker' = [rcvWorker EXCEPT ![g][k].pc = "handling"]
    /\ UNCHANGED <<rcvQueue, rcvRunning, rcvThread, rcvCtl>>
    /\ UNCHANGED <<msgVars, sendLog, rrVars, rhVars>>
    /\ UNCHANGED <<reqVars, extVars>>

\* The handler returns (or raises: _handle_message swallows it), and the
\* worker is back at "while self.running".
WorkerReturn(g, k) ==
    /\ rcvWorker[g][k].pc = "handling"
    /\ rcvWorker' = [rcvWorker EXCEPT ![g][k] =
          IF rcvRunning[g] THEN [NoWorker EXCEPT !.pc = "get"] ELSE NoWorker]
    /\ UNCHANGED <<rcvQueue, rcvRunning, rcvThread, rcvCtl, handled>>
    /\ UNCHANGED <<msgVars, sendLog, rrVars, rhVars>>
    /\ UNCHANGED <<reqVars, extVars>>

MsgNext ==
    \/ \E s \in Sends : SendMessageFull(s[1], s[2], s[3])
    \/ MessengerStart
    \/ MessengerStopBegin
    \/ MessengerStopJoined
    \/ \E d \in 1..MaxDrains : DrainLoop(d)
    \/ \E d \in 1..MaxDrains : DrainGet(d)
    \/ \E d \in 1..MaxDrains : DrainDeliver(d)
    \/ \E g \in Started : RcvStart(g)
    \/ \E g \in Started : RcvStopBegin(g)
    \/ \E g \in Started : RcvStopJoined(g)
    \/ \E g \in Started, k \in 1..MaxWorkers : WorkerGet(g, k)
    \/ \E g \in Started, k \in 1..MaxWorkers : WorkerEmpty(g, k)
    \/ \E g \in Started, k \in 1..MaxWorkers : WorkerInvoke(g, k)
    \/ \E g \in Started, k \in 1..MaxWorkers : WorkerReturn(g, k)

----------------------------------------------------------------------------
(* SecurityValidator and RateLimiter (ermis_security.py) *)

AllGods == {"zeus", "athena", "cronos", "lightning"}

\* The names of the policies, in the order of the dict of _initialize_policies.
PolicyOrder ==
    <<"execute_code", "store_variable", "store_function", "store_pattern", "store",
      "storage_store", "storage_retrieve", "storage_query", "storage_learn",
      "learn_pattern", "retrieve", "query", "broadcast", "health_check", "nlp_request">>

PolicyNames == {PolicyOrder[i] : i \in 1..Len(PolicyOrder)}

SecurityPolicy(allowed, rate, size, audit, validators) ==
    [allowed_gods |-> allowed, rate_limit |-> rate, size_limit |-> size,
     requires_audit |-> audit, custom_validators |-> validators]

Policies ==
    [p \in PolicyNames |->
       CASE p = "execute_code" ->
              SecurityPolicy({"zeus"}, 60, 10240, TRUE, <<"validate_code_safety">>)
         [] p = "store_variable" -> SecurityPolicy(AllGods, 100, 102400, FALSE, <<>>)
         [] p = "store_function" ->
              SecurityPolicy({"zeus", "athena"}, 30, 10240, TRUE,
                             <<"validate_function_definition">>)
         [] p = "store_pattern" ->
              SecurityPolicy({"athena", "cronos"}, 50, 5120, FALSE,
                             <<"validate_pattern_structure">>)
         [] p = "store" -> SecurityPolicy(AllGods, 100, 102400, FALSE, <<>>)
         [] p = "storage_store" -> SecurityPolicy(AllGods, 100, 102400, FALSE, <<>>)
         [] p = "storage_retrieve" -> SecurityPolicy(AllGods, 500, 1024, FALSE, <<>>)
         [] p = "storage_query" -> SecurityPolicy(AllGods, 500, 1024, FALSE, <<>>)
         [] p = "storage_learn" ->
              SecurityPolicy({"zeus", "athena", "cronos"}, 50, 5120, FALSE, <<>>)
         [] p = "learn_pattern" -> SecurityPolicy({"zeus", "athena"}, 50, 10240, FALSE, <<>>)
         [] p = "retrieve" -> SecurityPolicy(AllGods, 1000, 1024, FALSE, <<>>)
         [] p = "query" -> SecurityPolicy(AllGods, 500, 1024, FALSE, <<>>)
         [] p = "broadcast" -> SecurityPolicy({"ermis", "orchestrator"}, 10, 1024, TRUE, <<>>)
         [] p = "health_check" ->
              SecurityPolicy(AllGods \cup {"ermis", "orchestrator"}, 100, 256, FALSE, <<>>)
         [] p = "nlp_request" ->
              SecurityPolicy({"zeus", "athena", "cronos"}, 100, 10240, FALSE, <<>>)]

\* The default restrictive policy of _get_policy: nobody is allowed.
DefaultPolicy == SecurityPolicy({}, 10, 1024, FALSE, <<>>)

\* Python's "a in b" between the names of the policies and of the request
\* types of this model: the pairs where a is a part of b, other than a = b.
PartOf ==
    { <<"store", "store_variable">>, <<"store", "store_function">>,
      <<"store", "store_pattern">>, <<"store", "storage_store">>,
      <<"retrieve", "storage_retrieve">>, <<"query", "storage_query">> }

StrIn(a, b) == a = b \/ <<a, b>> \in PartOf

\* _get_policy: the exact name, then the first policy of the dict whose name
\* is part of the operation or has the operation as a part, then the default.
GetPolicy(operation) ==
    IF operation \in PolicyNames THEN Policies[operation]
    ELSE LET hits == {i \in 1..Len(PolicyOrder) :
                        StrIn(PolicyOrder[i], operation) \/ StrIn(operation, PolicyOrder[i])}
         IN  IF hits = {} THEN DefaultPolicy
             ELSE Policies[PolicyOrder[CHOOSE i \in hits : \A j \in hits : i <= j]]

\* _run_custom_validator on the data of a request that carries no 'data'
\* entry (request.get('data', {}) is {}): an empty code string is safe, an
\* empty function name and a missing pattern type are refused.
ValidatorAccepts(name) == name = "validate_code_safety"

\* validate_request: its verdict for a request of the given type and size
\* from sender, when recent entries of the sender's key are within the window
\* of the rate limiter.
Validation(sender, operation, size, recent) ==
    LET policy == GetPolicy(operation)
    IN  IF sender \notin policy.allowed_gods THEN "not authorized"
        ELSE IF recent >= policy.rate_limit THEN "rate limit"
        ELSE IF size > policy.size_limit THEN "size"
        ELSE IF \E i \in 1..Len(policy.custom_validators) :
                    ~ValidatorAccepts(policy.custom_validators[i])
        THEN "custom validator"
        ELSE "valid"

\* check_rate, reached when the sender is allowed: the entries older than the
\* window are dropped, and an entry is added unless the limit is reached.
RateChecked(sender, operation, size, recent) ==
    LET verdict == Validation(sender, operation, size, recent)
    IN  IF verdict = "not authorized" THEN rateLog
        ELSE [rateLog EXCEPT ![<<sender, operation>>] =
                 IF verdict = "rate limit" THEN recent ELSE recent + 1]

\* A faulty validate_request: the audit is made before the checks
Audited_BeforeChecks(sender, operation, size, recent) ==
    IF GetPolicy(operation).requires_audit
    THEN Append(auditLog, [sender |-> sender, operation |-> operation])
    ELSE auditLog

\* _audit_request, for a valid request under a policy that requires audit.
Audited(sender, operation, size, recent) ==
    IF Validation(sender, operation, size, recent) = "valid"
       /\ GetPolicy(operation).requires_audit
    THEN Append(auditLog, [sender |-> sender, operation |-> operation])
    ELSE auditLog

----------------------------------------------------------------------------
(* Olympus (ermis_olympus.py) *)

RoutingRule(primary, fallbacks) == [primary_god |-> primary, fallback_gods |-> fallbacks]

Domains ==
    {"language", "evaluation", "intelligence", "nlp", "learning", "time", "database",
     "knowledge", "patterns", "performance", "cache", "compilation", "messaging",
     "orchestration", "common", "health"}

\* _initialize_routing_table; fallback_gods None is the empty list.
RoutingTable ==
    [d \in Domains |->
       CASE d \in {"language", "evaluation"} -> RoutingRule("zeus", <<>>)
         [] d \in {"intelligence", "nlp"} -> RoutingRule("athena", <<>>)
         [] d = "learning" -> RoutingRule("athena", <<"cronos">>)
         [] d \in {"time", "database", "knowledge"} -> RoutingRule("cronos", <<>>)
         [] d = "patterns" -> RoutingRule("cronos", <<"athena">>)
         [] d \in {"performance", "cache", "compilation"} -> RoutingRule("lightning", <<>>)
         [] d = "messaging" -> RoutingRule("ermis", <<>>)
         [] d = "orchestration" -> RoutingRule("orchestrator", <<>>)
         [] d = "common" -> RoutingRule("common", <<>>)
         [] d = "health" -> RoutingRule("zeus", <<"orchestrator">>)]

\* _initialize_request_types
RequestTypes ==
    {"parse_expression", "evaluate_code", "execute_code", "validate_syntax", "nlp_request",
     "suggestion_request", "help_request", "analyze", "understand", "store_variable",
     "get_variable", "store_function", "get_function", "database_request", "store_concept",
     "get_concept", "start_session", "end_session", "store_pattern", "get_pattern",
     "get_all_patterns", "learn_pattern", "record_learning", "learn_from_code",
     "get_usage_patterns", "schedule_task", "cancel_task", "get_schedule", "optimize_code",
     "cache_result", "get_cached", "compile_code", "health_check", "system_status",
     "broadcast", "store", "retrieve", "compute", "learn", "query"}

RequestTypeMapping ==
    [t \in RequestTypes |->
       CASE t \in {"parse_expression", "validate_syntax"} -> "language"
         [] t \in {"evaluate_code", "execute_code", "compute"} -> "evaluation"
         [] t \in {"nlp_request", "understand"} -> "nlp"
         [] t \in {"suggestion_request", "help_request", "analyze"} -> "intelligence"
         [] t \in {"store_variable", "get_variable", "store_function", "get_function",
                   "database_request", "store_concept", "get_concept", "store",
                   "retrieve", "query"} -> "database"
         [] t \in {"start_session", "end_session"} -> "knowledge"
         [] t \in {"store_pattern", "get_pattern", "get_all_patterns"} -> "patterns"
         [] t \in {"learn_pattern", "record_learning", "learn_from_code",
                   "get_usage_patterns", "learn"} -> "learning"
         [] t \in {"schedule_task", "cancel_task", "get_schedule"} -> "time"
         [] t \in {"optimize_code", "compile_code"} -> "compilation"
         [] t \in {"cache_result", "get_cached"} -> "cache"
         [] t = "health_check" -> "health"
         [] t = "system_status" -> "orchestration"
         [] t = "broadcast" -> "messaging"]

\* route_request for a request whose type is in request_type_mapping (every
\* request type of this model is): the primary god followed by the fallbacks.
RouteRequest(request_type) ==
    LET rule == RoutingTable[RequestTypeMapping[request_type]]
    IN  <<rule.primary_god>> \o rule.fallback_gods

----------------------------------------------------------------------------
(* send_request, send_request_and_wait and send_response (ermis_messenger.py) *)

\* The requests made: sender, type, and the size _validate_size finds.
Requests ==
    { [source |-> "zeus", type |-> "learn_pattern", size |-> 200],
      [source |-> "athena", type |-> "learn_pattern", size |-> 200],
      [source |-> "athena", type |-> "execute_code", size |-> 200],
      [source |-> "ermis", type |-> "health_check", size |-> 200],
      [source |-> "zeus", type |-> "execute_code", size |-> 200],
      [source |-> "cronos", type |-> "learn_pattern", size |-> 200],
      [source |-> "athena", type |-> "health_check", size |-> 300],
      [source |-> "zeus", type |-> "system_status", size |-> 200],
      [source |-> "zeus", type |-> "health_check", size |-> 200] }

RateKeys == {<<r.source, r.type>> : r \in Requests}

\* The requests made with send_request_and_wait, and their timeouts in seconds.
WaitRequests ==
    {r \in Requests : r.source \in {"zeus", "ermis"}
                        /\ r.type \in {"learn_pattern", "health_check"}}

WaitTimeouts == 1..MaxWait

RHAgeCap == MaxWait + 1

NoResult == [kind |-> "none", id |-> 0]

NoReason == [text |-> "none", sender |-> "none", operation |-> "none"]

\* The reason of the ValidationResult: its text, and the sender and the
\* operation when the text names them.
Reason(sender, operation, verdict) ==
    CASE verdict = "not authorized" ->
           [text |-> "not authorized", sender |-> sender, operation |-> operation]
      [] verdict = "rate limit" ->
           [text |-> "Rate limit exceeded", sender |-> "none", operation |-> operation]
      [] verdict = "size" ->
           [text |-> "Request size exceeds limit", sender |-> "none", operation |-> "none"]
      [] verdict = "custom validator" ->
           [text |-> "custom validator", sender |-> "none", operation |-> "none"]
      [] OTHER -> [text |-> "Request validated", sender |-> "none", operation |-> "none"]

IdleCall ==
    [pc |-> "idle", source |-> "none", type |-> "none", wait |-> FALSE, T |-> 0,
     verdict |-> "none", reason |-> NoReason, targets |-> <<>>, todo |-> <<>>, attempts |-> <<>>,
     ret |-> FALSE, rem |-> 0, result |-> NoResult, reply |-> 0, inTime |-> FALSE]

ReqInit ==
    /\ call = [c \in 1..MaxCalls |-> IdleCall]
    /\ rateLog = [k \in RateKeys |-> 0]
    /\ auditLog = <<>>

\* A faulty secure_route_request: it routes whatever the verdict.
SecureRouteRequest_Always(verdict, request_type) == RouteRequest(request_type)

\* secure_route_request: no primary and no fallback targets for a request
\* that failed validation, else those of route_request.
SecureRouteRequest(verdict, request_type) ==
    IF verdict = "valid" THEN RouteRequest(request_type) ELSE <<>>

\* A faulty send_request: it also tries the sender itself
Attemptable_All(targets, source) == targets

\* The targets send_request tries, in order: the primary target and the
\* fallback targets, each skipped when it is the sender.
Attemptable(targets, source) ==
    LET Other(t) == t # source
    IN  SelectSeq(targets, Other)

\* send_request up to the first delivery attempt: olympus.secure_route_request,
\* that is validate_request and route_request.
\* The rate limiter's window is 60 seconds; the model does not count them:
\* any number of the key's entries may have left the window by now.
RequestStarted(c, r, wait, T) ==
    \E recent \in 0..rateLog[<<r.source, r.type>>] :
    LET verdict == Validation(r.source, r.type, r.size, recent)
        targets == SecureRouteRequest(verdict, r.type)
        begun == [IdleCall EXCEPT !.source = r.source, !.type = r.type, !.wait = wait,
                                  !.T = T, !.verdict = verdict,
                                  !.reason = Reason(r.source, r.type, verdict),
                                  !.targets = targets]
    IN  /\ call[c].pc = "idle"
        /\ \A b \in 1..(c - 1) : call[b].pc # "idle"
        /\ rateLog' = RateChecked(r.source, r.type, r.size, recent)
        /\ auditLog' = Audited(r.source, r.type, r.size, recent)
        /\ call' = [call EXCEPT ![c] =
              IF verdict = "valid"
              THEN [begun EXCEPT !.pc = "try",
                                 !.todo = Attemptable(targets, r.source)]
              ELSE [begun EXCEPT !.pc = "done"]]

\* A call of send_request(source, request).
SendRequest(c, r) ==
    /\ RequestStarted(c, r, FALSE, 0)
    /\ UNCHANGED <<rrVars, msgVars, rcvVars, sendLog, rhVars>>
    /\ UNCHANGED extVars

\* A call of send_request_and_wait(source, request, timeout): the request id
\* (that of call c is c) is registered with the response handler, and
\* send_request begins.
SendRequestAndWait(c, r, T) ==
    /\ RequestStarted(c, r, TRUE, T)
    /\ rhPending' = [rhPending EXCEPT ![c] = [present |-> TRUE, age |-> 0, timeout |-> T]]
    /\ UNCHANGED <<rrVars, msgVars, rcvVars, sendLog, rhSlot, rhRunning, rhSweep>>
    /\ UNCHANGED extVars

\* send_request: the next delivery attempt, a send_message_full to the next
\* target, or "return False" when none is left.  After True a waiting call
\* goes on to wait_for_response; after False it returns None.
SendRequestTry(c) ==
    /\ call[c].pc = "try"
    /\ IF call[c].todo = <<>>
       THEN /\ call' = [call EXCEPT ![c].pc = "done", ![c].ret = FALSE]
            /\ UNCHANGED <<receivers, receiversLoaded, rcvQueue, mQueues, sendLog>>
       ELSE LET target == Head(call[c].todo)
                ok == SendResult(call[c].source, target)
                content == [request_id |-> IF call[c].wait THEN c ELSE 0,
                            response_to |-> "none"]
            IN  /\ SendMessageFullOf(Message(Len(sendLog) + 1, call[c].source, target,
                                             content, call[c].type))
                /\ call' = [call EXCEPT
                      ![c].attempts = Append(@, [target |-> target, ok |-> ok]),
                      ![c].todo = Tail(@),
                      ![c].ret = ok,
                      ![c].pc = IF ~ok THEN "try" ELSE IF call[c].wait THEN "wait" ELSE "done"]
    /\ UNCHANGED <<loadable, mRunning, mDrain, mRouter, mCtl, drained>>
    /\ UNCHANGED <<rcvRunning, rcvWorker, rcvThread, rcvCtl, handled>>
    /\ UNCHANGED <<rrVars, rhVars, rateLog, auditLog>>
    /\ UNCHANGED extVars

\* ResponseHandler.wait_for_response(request_id, timeout), up to the blocking
\* get: None when the entry is gone, else get(timeout=timeout or pending.timeout).
RHWaitCall(c) ==
    /\ call[c].pc = "wait"
    /\ call' = [call EXCEPT ![c] =
          IF ~rhPending[c].present THEN [@ EXCEPT !.pc = "done"]
          ELSE [@ EXCEPT !.pc = "blocked",
                         !.rem = IF call[c].T # 0 THEN call[c].T ELSE rhPending[c].timeout]]
    /\ UNCHANGED <<rrVars, msgVars, rcvVars, sendLog, rhVars, rateLog, auditLog>>
    /\ UNCHANGED extVars

\* wait_for_response: the get returns what was put into the slot.
RHWaitGet(c) ==
    /\ call[c].pc = "blocked"
    /\ rhSlot[c] # <<>>
    /\ call' = [call EXCEPT ![c].pc = "done", ![c].result = Head(rhSlot[c])]
    /\ rhSlot' = [rhSlot EXCEPT ![c] = <<>>]
    /\ UNCHANGED <<rrVars, msgVars, rcvVars, sendLog, rhPending, rhRunning, rhSweep,
                   rateLog, auditLog>>
    /\ UNCHANGED extVars

\* wait_for_response: the get raises Empty; the entry is deleted if it is
\* still there, and None is returned.
RHWaitTimeout(c) ==
    /\ call[c].pc = "blocked"
    /\ rhSlot[c] = <<>>
    /\ call[c].rem = 0
    /\ call' = [call EXCEPT ![c].pc = "done"]
    /\ rhPending' = [rhPending EXCEPT ![c].present = FALSE]
    /\ UNCHANGED <<rrVars, msgVars, rcvVars, sendLog, rhSlot, rhRunning, rhSweep,
                   rateLog, auditLog>>
    /\ UNCHANGED extVars

\* now - pending.timestamp > timedelta(seconds=pending.timeout)
RHExpired(i) == rhPending[i].present /\ rhPending[i].age > rhPending[i].timeout

\* _cleanup_expired_requests: the loop test, and under the lock the scan, the
\* pop of every expired entry and the put of the timeout response into its
\* slot (Full is swallowed); then time.sleep(1).
RHSweepScan(t) ==
    /\ rhSweep[t].pc = "sleep"
    /\ rhSweep[t].sleepLeft = 0
    /\ IF ~rhRunning
       THEN /\ rhSweep' = [rhSweep EXCEPT ![t] = NoRHSweeper]
            /\ UNCHANGED <<rhPending, rhSlot>>
       ELSE /\ rhSweep' = [rhSweep EXCEPT ![t].sleepLeft = RHCleanupInterval]
            /\ rhPending' = [i \in RHIds |->
                  IF RHExpired(i) THEN [rhPending[i] EXCEPT !.present = FALSE]
                  ELSE rhPending[i]]
            /\ rhSlot' = [i \in RHIds |->
                  IF RHExpired(i) /\ rhSlot[i] = <<>> THEN <<TimeoutResponse>>
                  ELSE rhSlot[i]]
    /\ UNCHANGED <<rrVars, msgVars, rcvVars, sendLog, rhRunning, reqVars>>
    /\ UNCHANGED extVars

\* The messenger is running and its router thread is alive.
Draining == mRunning /\ mRouter # 0 /\ mCtl = "idle"

\* Inside its handler, the consumer of a request that carries a request id
\* answers it: messenger.send_response(god, {'request_id': id, 'response_to':
\* the source of the request}), that is send_message_full(god, response_to,
\* response_data, 'response').  inTime notes whether the requester was then
\* blocked in its wait with time left, its entry pending and the messenger
\* draining.
WorkerReply(g, k) ==
    /\ rcvWorker[g][k].pc = "handling"
    /\ ~rcvWorker[g][k].replied
    /\ rcvWorker[g][k].msg.type # "response"
    /\ rcvWorker[g][k].msg.data.request_id # 0
    /\ LET m == rcvWorker[g][k].msg
           rid == m.data.request_id
           ok == SendResult(g, m.source)
       IN  /\ SendMessageFullOf(Message(Len(sendLog) + 1, g, m.source,
                                        [request_id |-> rid, response_to |-> m.source],
                                        "response"))
           /\ call' = [call EXCEPT
                 ![rid].reply = IF ok THEN Len(sendLog) + 1 ELSE @,
                 ![rid].inTime = /\ ok
                                 /\ call[rid].pc = "blocked"
                                 /\ call[rid].rem > 0
                                 /\ rhPending[rid].present
                                 /\ Draining]
    /\ rcvWorker' = [rcvWorker EXCEPT ![g][k].replied = TRUE]
    /\ UNCHANGED <<loadable, mRunning, mDrain, mRouter, mCtl, drained>>
    /\ UNCHANGED <<rcvRunning, rcvThread, rcvCtl, handled>>
    /\ UNCHANGED <<rrVars, rhVars, rateLog, auditLog>>
    /\ UNCHANGED extVars

\* A thread that can take a step without time passing.  A handler takes as
\* long as it likes.
ReqReady ==
    \/ \E c \in 1..MaxCalls :
          \/ call[c].pc \in {"try", "wait"}
          \/ call[c].pc = "blocked" /\ (rhSlot[c] # <<>> \/ call[c].rem = 0)
    \/ \E t \in 1..MaxRHSweepers : rhSweep[t].pc = "sleep" /\ rhSweep[t].sleepLeft = 0
    \/ \E d \in 1..MaxDrains :
          \/ mDrain[d].pc \in {"scan", "got"}
          \/ mDrain[d].pc = "top" /\ (~mRunning \/ \E g \in GodSet : mQueues[g] # <<>>)
    \/ \E g \in RcvGods, k \in 1..MaxWorkers :
          \/ rcvWorker[g][k].pc = "got"
          \/ rcvWorker[g][k].pc = "get" /\ (rcvQueue[g] # <<>> \/ ~rcvRunning[g])

\* One second passes.
TickRH ==
    /\ ~ReqReady
    /\ rhPending' = [i \in RHIds |->
          IF rhPending[i].present
          THEN [rhPending[i] EXCEPT !.age = Min(@ + 1, RHAgeCap)]
          ELSE rhPending[i]]
    /\ call' = [c \in 1..MaxCalls |->
          IF call[c].pc = "blocked" THEN [call[c] EXCEPT !.rem = @ - 1] ELSE call[c]]
    /\ rhSweep' = [t \in 1..MaxRHSweepers |->
          IF rhSweep[t].pc = "sleep" THEN [rhSweep[t] EXCEPT !.sleepLeft = @ - 1]
          ELSE rhSweep[t]]
    /\ UNCHANGED <<rrVars, msgVars, rcvVars, sendLog, rhSlot, rhRunning, rateLog, auditLog>>
    /\ UNCHANGED extVars

ReqNext ==
    \/ \E c \in 1..MaxCalls, r \in Requests : SendRequest(c, r)
    \/ \E c \in 1..MaxCalls, r \in WaitRequests, T \in WaitTimeouts : SendRequestAndWait(c, r, T)
    \/ \E c \in 1..MaxCalls : SendRequestTry(c)
    \/ \E c \in 1..MaxCalls : RHWaitCall(c)
    \/ \E c \in 1..MaxCalls : RHWaitGet(c)
    \/ \E c \in 1..MaxCalls : RHWaitTimeout(c)
    \/ \E t \in 1..MaxRHSweepers : RHSweepScan(t)
    \/ \E g \in Started, k \in 1..MaxWorkers : WorkerReply(g, k)
    \/ MessengerStart
    \/ \E d \in 1..MaxDrains : DrainLoop(d)
    \/ \E d \in 1..MaxDrains : DrainGet(d)
    \/ \E d \in 1..MaxDrains : DrainDeliver(d)
    \/ \E g \in Started : RcvStart(g)
    \/ \E g \in Started, k \in 1..MaxWorkers : WorkerGet(g, k)
    \/ \E g \in Started, k \in 1..MaxWorkers : WorkerInvoke(g, k)
    \/ \E g \in Started, k \in 1..MaxWorkers : WorkerReturn(g, k)
    \/ TickRH

----------------------------------------------------------------------------
(* SecurityValidator._sanitize_data (ermis_security.py) *)

MAX_STRING_LENGTH == 10000
MAX_LIST_SIZE == 1000
MAX_DICT_SIZE == 500
MAX_RECURSION_DEPTH == 10

\* The length of the text a dangerous pattern matches (r'os\.' matches 3
\* characters).
PatternLength == 3

\* The length from which _is_safe_key refuses a key.
SafeKeyLength == 100

\* A value of the request's data.  t is its Python type: "str", "int",
\* "none", "list", "dict", or "other" for a type _sanitize_data does not know
\* (a tuple, say).  A string has a length and the position where a dangerous
\* pattern matches in it (0: nowhere); a value of another type has these for
\* its str().  A list has items; a dict has keys and, at the same places of
\* items, their values.
Value(t, len, at, keys, items) ==
    [t |-> t, len |-> len, at |-> at, keys |-> keys, items |-> items]

PyStr(len, at) == Value("str", len, at, <<>>, <<>>)
PyInt == Value("int", 0, 0, <<>>, <<>>)
PyNone == Value("none", 0, 0, <<>>, <<>>)
PyOther(len, at) == Value("other", len, at, <<>>, <<>>)
PyList(items) == Value("list", 0, 0, <<>>, items)
PyDict(keys, items) == Value("dict", 0, 0, keys, items)

\* A key of a dict: whether it is a str, its length, whether it contains
\* '__', whether it contains 'exec' or 'eval', and whether a dangerous
\* pattern matches in it.
Key(text, isStr, len, dunder, execEval, denied) ==
    [text |-> text, isStr |-> isStr, len |-> len, dunder |-> dunder,
     execEval |-> execEval, denied |-> denied]

Keys ==
    { Key("name", TRUE, 4, FALSE, FALSE, FALSE),
      Key("os.path", TRUE, 7, FALSE, FALSE, TRUE),
      Key("__class__", TRUE, 9, TRUE, FALSE, TRUE),
      Key("exec_cmd", TRUE, 8, FALSE, TRUE, FALSE),
      Key("7", FALSE, 0, FALSE, FALSE, FALSE) }

\* text[:n] of a string: a pattern that does not end within the first n
\* characters matches no more.
Truncated(s, n) ==
    [s EXCEPT !.len = Min(s.len, n),
              !.at = IF s.at > 0 /\ s.at + PatternLength - 1 <= n THEN s.at ELSE 0]

\* _sanitize_string: a string longer than MAX_STRING_LENGTH is cut and
\* returned; a shorter one is searched for the dangerous patterns, and is None
\* when one matches.
SanitizeString(text) ==
    IF text.len > MAX_STRING_LENGTH THEN Truncated(text, MAX_STRING_LENGTH)
    ELSE IF text.at > 0 THEN PyNone
    ELSE text

\* _is_safe_key
IsSafeKey(key) ==
    key.isStr /\ key.len < SafeKeyLength /\ ~key.dunder /\ ~key.execEval

RECURSIVE SanitizeData(_, _)
\* _sanitize_data(data, depth)
SanitizeData(data, depth) ==
    IF depth > MAX_RECURSION_DEPTH THEN PyNone
    ELSE CASE data.t = "str" -> SanitizeString(data)
           [] data.t = "int" -> data
           [] data.t = "list" ->
                IF Len(data.items) > MAX_LIST_SIZE THEN PyNone
                ELSE PyList([i \in 1..Len(data.items) |->
                              SanitizeData(data.items[i], depth + 1)])
           [] data.t = "dict" ->
                IF Len(data.items) > MAX_DICT_SIZE THEN PyNone
                ELSE LET n == Len(data.items)
                         Kept(i) == /\ IsSafeKey(data.keys[i])
                                    /\ SanitizeData(data.items[i], depth + 1) # PyNone
                         kept == SelectSeq([i \in 1..n |-> i], Kept)
                     IN  PyDict([j \in 1..Len(kept) |-> data.keys[kept[j]]],
                              [j \in 1..Len(kept) |->
                                  SanitizeData(data.items[kept[j]], depth + 1)])
           [] data.t = "none" -> PyNone
           [] OTHER -> Truncated(PyStr(data.len, data.at), MAX_STRING_LENGTH)

RECURSIVE Depth(_)
\* How deep a value is nested: 0 for a value that is no list and no dict.
Depth(data) ==
    IF data.t \notin {"list", "dict"} THEN 0
    ELSE LET depths == {Depth(data.items[i]) : i \in 1..Len(data.items)} \cup {0}
         IN  1 + CHOOSE m \in depths : \A d \in depths : d <= m

RECURSIVE JsonSize(_)
\* The length of json.dumps of a value: the characters of its strings and
\* keys, and the quotes, brackets, colons and commas around them.
JsonSize(data) ==
    LET n == Len(data.items)
        RECURSIVE SizeUpTo(_)
        SizeUpTo(i) ==
            IF i = 0 THEN 0
            ELSE SizeUpTo(i - 1) + 2 + JsonSize(data.items[i])
                   + (IF data.t = "dict" THEN data.keys[i].len + 4 ELSE 0)
    IN  CASE data.t \in {"str", "other"} -> data.len + 2
          [] data.t = "int" -> 1
          [] data.t = "none" -> 4
          [] OTHER -> 2 + SizeUpTo(n)

RECURSIVE HasDangerous(_)
\* A string in which a dangerous pattern matches is somewhere in the value,
\* as a string or as the key of a dict.
HasDangerous(data) ==
    \/ data.t = "str" /\ data.at > 0
    \/ \E i \in 1..Len(data.keys) : data.keys[i].isStr /\ data.keys[i].denied
    \/ \E i \in 1..Len(data.items) : HasDangerous(data.items[i])

\* The strings of the data: short and long, with a dangerous pattern at the
\* start, across the place of the cut, or nowhere.
Strings ==
    { PyStr(3, 0), PyStr(3, 1), PyStr(MAX_STRING_LENGTH + 1, 1),
      PyStr(MAX_STRING_LENGTH + 1, MAX_STRING_LENGTH - 1) }

Leaves == Strings \cup {PyInt, PyNone, PyOther(20, 0), PyOther(20, 5)}

\* The lists and dicts of up to width values taken from a set.
ListsOf(S, width) == {PyList(items) : items \in UNION {[1..n -> S] : n \in 0..width}}

DictsOf(S, width) ==
    LET keySeqs == {ks \in UNION {[1..n -> Keys] : n \in 0..width} :
                       \A i, j \in 1..Len(ks) : i # j => ks[i] # ks[j]}
    IN  UNION {{PyDict(keys, items) : items \in [1..Len(keys) -> S]} : keys \in keySeqs}

RECURSIVE Chain(_, _)
\* A value inside n lists.
Chain(n, leaf) == IF n = 0 THEN leaf ELSE PyList(<<Chain(n - 1, leaf)>>)

\* The data of the requests validated: values nested up to two deep, lists of
\* one dict or one list, and strings nested up to over deeper than the depth
\* limit.
DataTrees(width, over) ==
    LET flat == ListsOf(Leaves, width) \cup DictsOf(Leaves, width)
    IN  Leaves \cup flat
          \cup {PyList(<<v>>) : v \in flat}
          \cup {PyDict(<<k>>, <<v>>) : k \in Keys, v \in ListsOf(Strings, width)}
          \cup {Chain(n, s) : n \in (MAX_RECURSION_DEPTH - 1)..(MAX_RECURSION_DEPTH + over),
                              s \in Strings}

\* What sys.getsizeof(json.dumps(request)) adds to the size of the data: the
\* rest of the request and the header of the str object.
RequestOverhead == 100

\* The two ways a request with data reaches a god: send_request(source,
\* {'type': 'store_variable', 'data': data}), and a message of type
\* 'unified_request' with {'intent': 'store', 'data': data} that the drain
\* loop hands to _handle_unified_request.
SanPaths == {"send_request", "unified_request"}

\* The operation validate_request finds in the request.
SanOperation(path) == IF path = "send_request" THEN "store_variable" ELSE "storage_store"

NoValidation == [state |-> "idle", path |-> "none", data |-> PyNone, valid |-> FALSE,
                 reason |-> "none", sanitized |-> PyNone, delivered |-> <<>>]

SanInit == san = NoValidation

\* A request from zeus waits to be validated.
SanInputs ==
    \E d \in DataTrees(MaxWidth, MaxOverDepth), p \in SanPaths :
        san = [NoValidation EXCEPT !.state = "request", !.path = p, !.data = d]

\* validate_request of the request, the sender allowed and the rate limit not
\* reached: the size check on json.dumps of the request, _sanitize_data on its
\* data, and the ValidationResult with the sanitized copy.
ValidateData ==
    /\ san.state = "request"
    /\ LET policy == GetPolicy(SanOperation(san.path))
           sanitized == SanitizeData(san.data, 0)
       IN  san' = IF JsonSize(san.data) + RequestOverhead > policy.size_limit
                  THEN [san EXCEPT !.state = "done", !.reason = "size"]
                  ELSE IF sanitized = PyNone
                  THEN [san EXCEPT !.state = "done", !.reason = "Invalid data structure"]
                  ELSE [san EXCEPT !.state = "validated", !.valid = TRUE,
                                   !.reason = "Request validated",
                                   !.sanitized = sanitized]
    /\ UNCHANGED <<coreVars, rl, val, customRoutes, pipe, ur, bc>>

\* The value of data.get(text), None when the key is missing.
DictGet(data, text) ==
    LET hits == {i \in 1..Len(data.keys) : data.keys[i].text = text}
    IN  IF hits = {} THEN PyNone ELSE data.items[CHOOSE i \in hits : TRUE]

\* _route_store_request on data without metadata and without a large value:
\* a name (a str, '' when missing) that is no temporary and no session name is
\* stored and cached.
StoreTargets == <<"cronos", "lightning">>

\* The messages handed to receivers for a validated request.  send_request
\* sends validation_result.sanitized_data to the primary target of
\* 'store_variable'.  _handle_unified_request asks route_storage_request, which
\* decides on the sanitized data (a data that is no dict, or a name that is no
\* str, raises, and the drain loop goes on), and _execute_routing_decision
\* sends original_msg.data.get('data', {}) to every target of the decision.
Deliver ==
    /\ san.state = "validated"
    /\ LET name == DictGet(san.sanitized, "name")
           raised == san.sanitized.t # "dict" \/ name.t \notin {"str", "none"}
       IN  san' = [san EXCEPT
              !.state = "done",
              !.delivered =
                 IF san.path = "send_request"
                 THEN <<[target |-> Head(RouteRequest("store_variable")),
                         data |-> san.sanitized]>>
                 ELSE IF raised THEN <<>>
                 ELSE [i \in 1..Len(StoreTargets) |->
                          [target |-> StoreTargets[i], data |-> san.data]]]
    /\ UNCHANGED <<coreVars, rl, val, customRoutes, pipe, ur, bc>>

SanNext == ValidateData \/ Deliver

----------------------------------------------------------------------------
(* RateLimiter.check_rate under concurrent callers (ermis_security.py) *)

\* RateLimiter.window, in seconds.
RateWindow == 60

\* The same in clock ticks of the rate limiter (thirty seconds each).
WindowTicks == RateWindow \div 30

\* The operation of the key the callers share (they validate requests of one
\* sender), and the limit validate_request passes to check_rate:
\* policy.rate_limit, cut down to the bound.
RateOperation == "store_variable"

RateLimit == Min(GetPolicy(RateOperation).rate_limit, MaxLimit)

NoCheck == [pc |-> "idle", kept |-> <<>>, total |-> 0, atLimit |-> FALSE]

\* entries: self.requests[key], the age in ticks of every (ts, 1) in it.
\* passed: the ages of the calls that returned True.  returned: what the
\* calls have returned so far, each with whether the window held the limit
\* when it began.
RateInit ==
    rl = [entries |-> <<>>, thr |-> [t \in 1..MaxRateThreads |-> NoCheck],
          passed |-> <<>>, returned |-> <<>>, calls |-> 0]

\* now - ts < self.window
InWindow(age) == age < WindowTicks

\* The calls that returned True within the last 60 seconds.
PassedInWindow == SelectSeq(rl.passed, InWindow)

\* check_rate(sender, operation, limit) begins: now = time.time(), and the
\* list comprehension reads the entries that are within the window.
CheckRateCall(t) ==
    /\ rl.thr[t].pc = "idle"
    /\ rl.calls < MaxChecks
    /\ rl' = [rl EXCEPT !.calls = @ + 1,
                        !.thr[t] = [pc |-> "assign",
                                    kept |-> SelectSeq(rl.entries, InWindow),
                                    total |-> 0,
                                    atLimit |-> Len(PassedInWindow) >= RateLimit]]
    /\ UNCHANGED <<coreVars, san, val, customRoutes, pipe, ur, bc>>

\* "self.requests[key] = [...]": the list built from the entries read before
\* is stored under the key, whatever was appended to the old list since.
CheckRateAssign(t) ==
    /\ rl.thr[t].pc = "assign"
    /\ rl' = [rl EXCEPT !.entries = rl.thr[t].kept,
                        !.thr[t].pc = "sum"]
    /\ UNCHANGED <<coreVars, san, val, customRoutes, pipe, ur, bc>>

\* total = sum(count for ts, count in self.requests[key])
CheckRateSum(t) ==
    /\ rl.thr[t].pc = "sum"
    /\ rl' = [rl EXCEPT !.thr[t].total = Len(rl.entries), !.thr[t].pc = "test"]
    /\ UNCHANGED <<coreVars, san, val, customRoutes, pipe, ur, bc>>

\* "if total >= limit: return False", else the append of (now, 1) and
\* "return True".
CheckRateReturn(t) ==
    /\ rl.thr[t].pc = "test"
    /\ LET ok == rl.thr[t].total < RateLimit
       IN  rl' = [rl EXCEPT
              !.entries = IF ok THEN Append(@, 0) ELSE @,
              !.passed = IF ok THEN Append(@, 0) ELSE @,
              !.returned = Append(@, [ok |-> ok, atLimit |-> rl.thr[t].atLimit]),
              !.thr[t] = NoCheck]
    /\ UNCHANGED <<coreVars, san, val, customRoutes, pipe, ur, bc>>

\* Thirty seconds pass while no call is inside check_rate.
TickRate ==
    /\ \A t \in 1..MaxRateThreads : rl.thr[t].pc = "idle"
    /\ LET Older(s) == [i \in 1..Len(s) |-> Min(s[i] + 1, WindowTicks)]
       IN  rl' = [rl EXCEPT !.entries = Older(@), !.passed = Older(@)]
    /\ UNCHANGED <<coreVars, san, val, customRoutes, pipe, ur, bc>>

RateNext ==
    \/ \E t \in 1..MaxRateThreads : CheckRateCall(t)
    \/ \E t \in 1..MaxRateThreads : CheckRateAssign(t)
    \/ \E t \in 1..MaxRateThreads : CheckRateSum(t)
    \/ \E t \in 1..MaxRateThreads : CheckRateReturn(t)
    \/ TickRate

----------------------------------------------------------------------------
(* validate_request called again and again with one request (ermis_security.py) *)

\* The requests validated: those of send_request, and a broadcast of ermis.
ValRequests == Requests \cup {[source |-> "ermis", type |-> "broadcast", size |-> 200]}

NoRequestYet == [source |-> "none", type |-> "none", size |-> 0]

\* request: the request every call is made with.  entries: the ages of the
\* entries of its key in the rate limiter.  verdicts: what the calls returned.
ValInit == val = [request |-> NoRequestYet, entries |-> <<>>, verdicts |-> <<>>]

ValInputs == \E r \in ValRequests : val = [request |-> r, entries |-> <<>>, verdicts |-> <<>>]

\* A faulty validate_request: it leaves the request cut down to the size limit
RequestAfter_CutDown(request) ==
    [request EXCEPT !.size = Min(@, GetPolicy(request.type).size_limit)]

\* The request after validate_request(request, sender): sanitization works
\* on request.get('data') and on request.copy(), the request is as before.
RequestAfter(request) == request

\* One call of validate_request(request, sender), alone.
Validate ==
    /\ Len(val.verdicts) < MaxValidations
    /\ LET r == val.request
           kept == SelectSeq(val.entries, InWindow)
           verdict == Validation(r.source, r.type, r.size, Len(kept))
       IN  val' = [request |-> RequestAfter(r),
                   entries |-> IF verdict = "not authorized" THEN val.entries
                               ELSE IF verdict = "rate limit" THEN kept
                               ELSE Append(kept, 0),
                   verdicts |-> Append(val.verdicts, verdict)]
    /\ UNCHANGED <<coreVars, san, rl, customRoutes, pipe, ur, bc>>

\* Thirty seconds pass between two calls.
TickVal ==
    /\ val' = [val EXCEPT !.entries = [i \in 1..Len(@) |-> Min(@[i] + 1, WindowTicks)]]
    /\ UNCHANGED <<coreVars, san, rl, customRoutes, pipe, ur, bc>>

ValNext == Validate \/ TickVal

----------------------------------------------------------------------------
(* Olympus.add_custom_route and route_request (ermis_olympus.py) *)

\* The members of Domain; STORAGE and VALIDATION have no RoutingRule in the
\* routing table.
AllDomains == Domains \cup {"storage", "validation"}

\* The request types of the add_custom_route and route_request calls: two of
\* the initial mapping and two new ones.
RouteTypes == {"parse_expression", "learn_pattern", "persist_blob", "check_input"}

NoRoute == [state |-> "none", type |-> "none", primary |-> "none", fallbacks |-> <<>>]

\* A request given to route_request: its 'type' and its 'from' ("none": the
\* key is missing); it holds nothing else.
RouteRequests == [type : RouteTypes, from : {"zeus", "cronos", "lightning", "none"}]

NoAsked == [type |-> "none", from |-> "none"]

\* mapping: request_type_mapping on the request types of the calls ("none":
\* not a key).  adds: the add_custom_route calls so far.  asked: the request
\* of the last route_request call.  last: what that call returned.
RouteInit ==
    customRoutes =
        [mapping |-> [t \in RouteTypes |->
                         IF t \in RequestTypes THEN RequestTypeMapping[t] ELSE "none"],
         adds |-> 0,
         asked |-> NoAsked,
         last |-> NoRoute]

\* route_request({'type': request_type}) for a request type that is a key of
\* the mapping: self.routing_table[domain] raises KeyError for a domain
\* without a rule, else the primary god and the fallback gods of the rule.
RouteRequestIn(mapping, request_type) ==
    LET domain == mapping[request_type]
    IN  IF domain \notin DOMAIN RoutingTable
        THEN [state |-> "raised", type |-> request_type, primary |-> "none",
              fallbacks |-> <<>>]
        ELSE [state |-> "returned", type |-> request_type,
              primary |-> RoutingTable[domain].primary_god,
              fallbacks |-> RoutingTable[domain].fallback_gods]

\* add_custom_route(request_type, domain)
AddCustomRoute(request_type, domain) ==
    /\ customRoutes.adds < MaxCustomRoutes
    /\ customRoutes' = [customRoutes EXCEPT !.mapping[request_type] = domain,
                                            !.adds = @ + 1]
    /\ UNCHANGED <<coreVars, san, rl, val, pipe, ur, bc>>

\* route_request for a request whose type is in the mapping.
RouteCall(request_type) ==
    /\ customRoutes.mapping[request_type] # "none"
    /\ customRoutes' =
          [customRoutes EXCEPT !.asked = [NoAsked EXCEPT !.type = request_type],
                               !.last = RouteRequestIn(customRoutes.mapping, request_type)]
    /\ UNCHANGED <<coreVars, san, rl, val, pipe, ur, bc>>

\* keyword_domains of _infer_domain, in the order of the dict.
KeywordDomains ==
    << [keywords |-> {"parse", "syntax", "code", "execute", "eval"}, domain |-> "language"],
       [keywords |-> {"ai", "understand", "suggest", "nlp", "natural"},
        domain |-> "intelligence"],
       [keywords |-> {"store", "save", "database", "persist"}, domain |-> "database"],
       [keywords |-> {"pattern", "learn", "training"}, domain |-> "patterns"],
       [keywords |-> {"schedule", "time", "cron", "delay"}, domain |-> "time"],
       [keywords |-> {"optimize", "compile", "performance"}, domain |-> "performance"],
       [keywords |-> {"cache", "cached", "memoize"}, domain |-> "cache"],
       [keywords |-> {"health", "status", "monitor"}, domain |-> "health"] >>

\* Python's "keyword in content" for the strings of this model: the keywords
\* that are a part of the string.  The keys 'type' and 'from' and the other
\* strings hold none.
KeywordsIn(string) ==
    CASE string = "parse_expression" -> {"parse"}
      [] string = "learn_pattern" -> {"learn", "pattern"}
      [] string = "persist_blob" -> {"persist"}
      [] string = "cronos" -> {"cron"}
      [] OTHER -> {}

\* str(request).lower(): the keywords that are a part of it.
Content(request) ==
    KeywordsIn(request.type) \cup KeywordsIn(request.from)

\* _infer_domain: the domain of the first group with a keyword in the
\* content, "none" for None.
InferDomain(request) ==
    LET hits == {i \in 1..Len(KeywordDomains) :
                    KeywordDomains[i].keywords \cap Content(request) # {}}
    IN  IF hits = {} THEN "none"
        ELSE KeywordDomains[CHOOSE i \in hits : \A j \in hits : i <= j].domain

\* What route_request returns for a rule of the routing table.
Returned(request_type, primary, fallbacks) ==
    [state |-> "returned", type |-> request_type, primary |-> primary,
     fallbacks |-> fallbacks]

\* The default routing of route_request by the sender, and the ultimate
\* fallback.
SenderDefault(sender) ==
    CASE sender = "zeus" -> "athena"
      [] sender = "athena" -> "cronos"
      [] sender = "cronos" -> "zeus"
      [] sender = "lightning" -> "zeus"
      [] OTHER -> "orchestrator"

\* A faulty route_request: the content is looked at before the type
RouteRequestOf_InferFirst(mapping, request) ==
    LET domain == InferDomain(request)
    IN  IF domain # "none"
        THEN Returned(request.type, RoutingTable[domain].primary_god,
                      RoutingTable[domain].fallback_gods)
        ELSE IF mapping[request.type] # "none" THEN RouteRequestIn(mapping, request.type)
        ELSE Returned(request.type, SenderDefault(request.from), <<>>)

\* route_request(request)
RouteRequestOf(mapping, request) ==
    LET domain == InferDomain(request)
    IN  IF mapping[request.type] # "none" THEN RouteRequestIn(mapping, request.type)
        ELSE IF domain # "none"
        THEN Returned(request.type, RoutingTable[domain].primary_god,
                      RoutingTable[domain].fallback_gods)
        ELSE Returned(request.type, SenderDefault(request.from), <<>>)

\* A call of route_request with any request.
RouteAny(request) ==
    /\ customRoutes' =
          [customRoutes EXCEPT !.asked = request,
                               !.last = RouteRequestOf(customRoutes.mapping, request)]
    /\ UNCHANGED <<coreVars, san, rl, val, pipe, ur, bc>>

RouteNext ==
    \/ \E t \in RouteTypes, d \in AllDomains : AddCustomRoute(t, d)
    \/ \E t \in RouteTypes : RouteCall(t)
    \/ \E r \in RouteRequests : RouteAny(r)

----------------------------------------------------------------------------
(* RequestPipeline (ermis_pipeline.py) *)

\* PipelineStage(name, handler, conditions, retry_count, on_error), its
\* timeout left at the default of five seconds.  The data of a request is the
\* set of its keys.  needs: the key the condition of the stage looks for
\* ("none": no condition).  adds: the key the handler adds to the data it
\* returns.  outcomes: what the handler does at its first, second, ...
\* invocation within one execution (the last one again after that): "ok", it
\* returns StageResult(COMPLETED, data); "failed", it returns
\* StageResult(FAILED); "raise", it raises; "hang", it runs longer than the
\* timeout.  on_error: "none", "recover" (it returns a COMPLETED StageResult
\* without data) or "raise".
PipelineStage(name, retry_count, needs, adds, outcomes, on_error) ==
    [name |-> name, retry_count |-> retry_count, needs |-> needs, adds |-> adds,
     outcomes |-> outcomes, on_error |-> on_error]

StageDefs ==
    { PipelineStage("validate", 0, "none", "validated", <<"ok">>, "none"),
      PipelineStage("enrich", 0, "validated", "enriched", <<"ok">>, "none"),
      PipelineStage("check", 0, "none", "none", <<"failed">>, "none"),
      PipelineStage("fetch", MaxRetries, "none", "none", <<"raise">>, "none"),
      PipelineStage("transform", MaxRetries, "none", "transformed", <<"raise", "ok">>, "none"),
      PipelineStage("slow", MaxRetries, "none", "none", <<"hang">>, "none"),
      PipelineStage("filter", 1, "none", "none", <<"raise", "failed">>, "none"),
      PipelineStage("guard", 1, "none", "none", <<"raise">>, "recover"),
      PipelineStage("audit", 0, "none", "none", <<"raise">>, "raise") }

\* The pipelines: up to MaxStages stages added with add_stage.
Pipelines == UNION {[1..n -> StageDefs] : n \in 1..MaxStages}

\* StageResult(status, data, error); data is <<>> for None, else the data in
\* a tuple.
StageResult(status, data, error) == [status |-> status, data |-> data, error |-> error]

\* PipelineContext and the position of one call of execute.  completed is
\* stages_completed; results is stage_results, a dict in insertion order;
\* recorded notes every _record_stage_result call and calls every invocation
\* of a handler, by the index of the stage; failedAt is the index of the first
\* stage recorded FAILED (0: none).
NoRun ==
    [pc |-> "idle", idx |-> 0, attempts |-> 0, data |-> {}, completed |-> <<>>,
     results |-> <<>>, recorded |-> <<>>, calls |-> <<>>, failedAt |-> 0,
     status |-> "none", error |-> [stage |-> "none", error |-> "none"]]

PipeInit == pipe = [stages |-> <<>>, input |-> {}, run |-> [e \in 1..MaxRuns |-> NoRun]]

\* A pipeline and a request are about to be executed.
PipeInputs ==
    \E p \in Pipelines, d \in {{}, {"validated"}} :
        pipe = [stages |-> p, input |-> d, run |-> [e \in 1..MaxRuns |-> NoRun]]

\* A faulty engine: every execution reads the context of the first one
CurrentData_Shared(run, e) == run[1].data

\* context.current_data of execution e
CurrentData(run, e) == run[e].data

\* A faulty engine: the conditions of a stage are not looked at
ShouldExecuteStage_Always(stage, data) == TRUE

\* _should_execute_stage
ShouldExecuteStage(stage, data) == stage.needs = "none" \/ stage.needs \in data

\* What the handler does at its n-th invocation.
Outcome(stage, n) == stage.outcomes[Min(n, Len(stage.outcomes))]

\* A faulty retry loop: one attempt too few
Exhausted_OneEarly(attempts, retry_count) == attempts >= retry_count

\* "if attempts > stage.retry_count", after an attempt that raised.
Exhausted(attempts, retry_count) == attempts > retry_count

\* A faulty execute: it goes on after a failed stage
Aborts_Never(result) == FALSE

\* "if result.status == StageStatus.FAILED: return _handle_pipeline_failure"
Aborts(result) == result.status = "failed"

\* context.stage_results[stage_name] = result
Stored(results, name, result) ==
    LET entry == [name |-> name, status |-> result.status, error |-> result.error]
        at == {i \in 1..Len(results) : results[i].name = name}
    IN  IF at = {} THEN Append(results, entry)
        ELSE [i \in 1..Len(results) |-> IF i \in at THEN entry ELSE results[i]]

\* _record_stage_result, and what execute does with the result of a stage:
\* the failure response, or the new current_data and the next stage.
Recorded(r, stages, result) ==
    LET stage == stages[r.idx]
        noted == [r EXCEPT
                    !.completed = Append(@, stage.name),
                    !.results = Stored(@, stage.name, result),
                    !.recorded = Append(@, [idx |-> r.idx, name |-> stage.name,
                                            status |-> result.status,
                                            error |-> result.error]),
                    !.failedAt = IF @ = 0 /\ result.status = "failed" THEN r.idx ELSE @]
    IN  IF Aborts(result)
        THEN [noted EXCEPT !.pc = "done", !.status = "failed",
                           !.error = [stage |-> stage.name, error |-> result.error]]
        ELSE [noted EXCEPT !.pc = "stage", !.idx = @ + 1, !.attempts = 0,
                           !.data = IF result.data = <<>> THEN @ ELSE result.data[1]]

\* execute(request, sender) begins: the context with copies of the request.
PipeExecute(e) ==
    /\ pipe.run[e].pc = "idle"
    /\ pipe' = [pipe EXCEPT !.run[e] = [NoRun EXCEPT !.pc = "stage", !.idx = 1,
                                                     !.data = pipe.input]]
    /\ UNCHANGED <<coreVars, san, rl, val, customRoutes, ur, bc>>

\* The top of the loop over the stages: the response COMPLETED after the last
\* stage; a stage whose condition does not hold is recorded SKIPPED; else
\* _execute_stage begins.
PipeStage(e) ==
    /\ pipe.run[e].pc = "stage"
    /\ LET r == pipe.run[e]
           data == CurrentData(pipe.run, e)
       IN  pipe' = [pipe EXCEPT !.run[e] =
              IF r.idx > Len(pipe.stages)
              THEN [r EXCEPT !.pc = "done", !.status = "completed"]
              ELSE IF ~ShouldExecuteStage(pipe.stages[r.idx], data)
              THEN Recorded(r, pipe.stages, StageResult("skipped", <<data>>, "none"))
              ELSE [r EXCEPT !.pc = "attempt", !.attempts = 0]]
    /\ UNCHANGED <<coreVars, san, rl, val, customRoutes, ur, bc>>

\* One turn of the loop of _execute_stage: the handler is invoked through
\* _execute_with_timeout.  What it returns, and the FAILED result of a
\* timeout, is the result of the stage.  When it raises, attempts is
\* incremented; with attempts left the loop sleeps and tries again, else the
\* result is that of on_error, or FAILED when there is none or it raises.
PipeAttempt(e) ==
    /\ pipe.run[e].pc = "attempt"
    /\ LET r == pipe.run[e]
           stage == pipe.stages[r.idx]
           data == CurrentData(pipe.run, e)
           outcome == Outcome(stage, Len(SelectSeq(r.calls, LAMBDA i : i = r.idx)) + 1)
           called == [r EXCEPT !.calls = Append(@, r.idx)]
           returned ==
               IF stage.adds = "none" THEN data ELSE data \cup {stage.adds}
       IN  pipe' = [pipe EXCEPT !.run[e] =
              CASE outcome = "ok" ->
                     Recorded(called, pipe.stages, StageResult("completed", <<returned>>, "none"))
                [] outcome = "failed" ->
                     Recorded(called, pipe.stages,
                              StageResult("failed", <<data>>, "refused by the handler"))
                [] outcome = "hang" ->
                     Recorded(called, pipe.stages, StageResult("failed", <<data>>, "timed out"))
                [] OTHER ->
                     IF ~Exhausted(r.attempts + 1, stage.retry_count)
                     THEN [called EXCEPT !.attempts = @ + 1]
                     ELSE IF stage.on_error = "recover"
                     THEN Recorded(called, pipe.stages,
                                   StageResult("completed", <<>>, "none"))
                     ELSE Recorded(called, pipe.stages,
                                   StageResult("failed", <<data>>, "raised"))]
    /\ UNCHANGED <<coreVars, san, rl, val, customRoutes, ur, bc>>

PipeNext ==
    \/ \E e \in 1..MaxRuns : PipeExecute(e)
    \/ \E e \in 1..MaxRuns : PipeStage(e)
    \/ \E e \in 1..MaxRuns : PipeAttempt(e)

\* The last stage of the execution was recorded FAILED by _execute_with_timeout:
\* the thread of its handler was alive after join(timeout) and is left running.
Abandoned(r) ==
    /\ r.failedAt # 0
    /\ r.recorded[Len(r.recorded)].error = "timed out"

\* The abandoned thread goes on in handler(data).  data is the dict behind
\* context.current_data, which is also 'data' of the response execute has
\* returned; a handler that stores into its argument (data['late'] = ...)
\* stores into that dict.
AbandonedHandler(e) ==
    /\ Abandoned(pipe.run[e])
    /\ "late" \notin pipe.run[e].data
    /\ pipe' = [pipe EXCEPT !.run[e].data = @ \cup {"late"}]
    /\ UNCHANGED <<coreVars, san, rl, val, customRoutes, ur, bc>>

TimeoutNext ==
    \/ \E e \in 1..MaxRuns : PipeExecute(e)
    \/ \E e \in 1..MaxRuns : PipeStage(e)
    \/ \E e \in 1..MaxRuns : PipeAttempt(e)
    \/ \E e \in 1..MaxRuns : AbandonedHandler(e)

----------------------------------------------------------------------------
(* _handle_unified_request (ermis_messenger.py) and StorageRouter (ermis_olympus.py) *)

\* A unified request: the content {'type': 'unified_request', 'intent': ...,
\* 'data': ..., 'pipeline': ...} that source sends to 'ermis'.  pipeline is the
\* 'pipeline' entry ("none": left out); fails tells whether the content makes
\* the handlers of the pipeline that is run for it fail.  Of the data: name is
\* "plain", "underscore" ('_' first), "session" ('session' in it) or "nonstr"
\* (no str); type is metadata['type']; session_id whether the metadata has
\* one; large whether the value is larger than 10 KB; simple what
\* _is_simple_computation finds.  recent counts the sender's entries in the
\* window of the rate limiter; cached tells whether the cache holds the name.
\* A request with another intent has the intent as its 'type' as well.
UnifiedRequest(source, intent, pipeline, fails, name, type, session_id, large, simple, recent, cached) ==
    [source |-> source, intent |-> intent, pipeline |-> pipeline, fails |-> fails,
     name |-> name, type |-> type, session_id |-> session_id, large |-> large,
     simple |-> simple, recent |-> recent, cached |-> cached]

NoUnified ==
    UnifiedRequest("none", "none", "none", FALSE, "plain", "variable", FALSE, FALSE, TRUE,
                   0, FALSE)

UnifiedRequests ==
    {UnifiedRequest(s, "store", "none", FALSE, n, t, sid, l, TRUE, r, FALSE) :
        s \in {"zeus", "ermis"}, n \in {"plain", "underscore", "session", "nonstr"},
        t \in {"variable", "function", "pattern"}, sid \in BOOLEAN, l \in BOOLEAN,
        r \in {0, GetPolicy("storage_store").rate_limit}}
    \cup {UnifiedRequest("zeus", "retrieve", "none", FALSE, "plain", "variable", FALSE, FALSE,
                         TRUE, r, c) :
            r \in {0, GetPolicy("storage_retrieve").rate_limit}, c \in BOOLEAN}
    \cup {UnifiedRequest("zeus", i, "none", f, "plain", "variable", FALSE, FALSE, s, 0, FALSE) :
            i \in {"compute", "natural_language", "learn", "health_check"},
            f \in BOOLEAN, s \in BOOLEAN}
    \cup {UnifiedRequest("zeus", i, p, f, "plain", "variable", FALSE, FALSE, TRUE, 0, FALSE) :
            i \in {"store", "compute"}, p \in {"learning_pipeline", "report_pipeline"},
            f \in BOOLEAN}

\* pipeline_registry.pipelines: the pipelines registered on import.
RegisteredPipelines ==
    {"storage_pipeline", "nlp_pipeline", "compute_pipeline", "learning_pipeline",
     "code_analysis_pipeline", "data_processing_pipeline", "composite_pipeline"}

\* The status of the result of pipeline_registry.execute(name, data, sender):
\* failed for a name that is not registered; the handlers of storage_pipeline
\* complete on every dict.
PipelineStatus(name, request) ==
    IF name \notin RegisteredPipelines THEN "failed"
    ELSE IF name = "storage_pipeline" THEN "completed"
    ELSE IF request.fails THEN "failed"
    ELSE "completed"

\* The pipelines _handle_unified_request executes for a request, in order.
PipelinesRun(request) ==
    (IF request.pipeline # "none" THEN <<request.pipeline>>
     ELSE IF request.intent = "compute" THEN <<"compute_pipeline">>
     ELSE IF request.intent = "natural_language" THEN <<"nlp_pipeline">>
     ELSE <<>>)
    \o (IF request.intent \in {"store", "retrieve", "query", "learn"}
              /\ ~(request.pipeline # "none"
                     /\ PipelineStatus(request.pipeline, request) = "failed")
        THEN <<"storage_pipeline">> ELSE <<>>)

\* A routing decision: 'targets' (a 'target' is the one entry of targets,
\* None is "none"), 'action' and 'error'.
Decision(targets, action, error) == [targets |-> targets, action |-> action, error |-> error]

\* A faulty _route_store_request: the default is the persistent store alone
RouteStoreDefault_NoCache == Decision(<<"cronos">>, "store", "none")

\* _route_store_request: the default at its end.
RouteStoreDefault == Decision(<<"cronos", "lightning">>, "store_and_cache", "none")

\* _route_store_request, for a name that is a str.
RouteStoreRequest(request) ==
    IF request.name = "underscore" THEN Decision(<<"lightning">>, "cache", "none")
    ELSE IF request.type = "function" THEN Decision(<<"cronos">>, "store_function", "none")
    ELSE IF request.type = "pattern"
    THEN Decision(<<"athena", "cronos">>, "validate_and_store", "none")
    ELSE IF request.name = "session" \/ request.session_id
    THEN Decision(<<"lightning">>, "session_cache", "none")
    ELSE IF request.large THEN Decision(<<"lightning">>, "cache", "none")
    ELSE RouteStoreDefault

\* f'storage_{intent}'
StorageOperation(intent) ==
    CASE intent = "store" -> "storage_store"
      [] intent = "retrieve" -> "storage_retrieve"
      [] intent = "query" -> "storage_query"
      [] OTHER -> "storage_learn"

\* route_storage_request(intent, data, sender): validate_request of
\* 'storage_<intent>', then the decision by intent.
RouteStorageRequest(request) ==
    IF Validation(request.source, StorageOperation(request.intent), 200, request.recent)
          # "valid"
    THEN Decision(<<"none">>, "store", "Validation failed")
    ELSE CASE request.intent = "store" -> RouteStoreRequest(request)
           [] request.intent = "retrieve" ->
                Decision(<<"lightning", "cronos">>, "retrieve_cascade", "none")
           [] OTHER -> Decision(<<"athena", "cronos">>, "learn_and_store", "none")

\* _handle_unified_request raises: route_storage_request does, at
\* name.startswith('_'), for a store that passed validation and whose name is
\* no str, unless the pipeline named in the request failed before.
Raises(request) ==
    /\ request.intent = "store"
    /\ request.name = "nonstr"
    /\ RouteStorageRequest(request).error = "none"
    /\ ~(request.pipeline # "none" /\ PipelineStatus(request.pipeline, request) = "failed")

\* The calls _handle_unified_request makes for a request, in order: of
\* _route_to_god, as [target, type], and of _send_error_response, as
\* [target |-> the source, type |-> "error_response"].  route_storage_request
\* raises for a store whose name is no str; the drain loop catches it.
Routed(request) ==
    LET explicit == request.pipeline # "none"
        error == <<[target |-> request.source, type |-> "error_response"]>>
        To(decision) ==
            IF decision.targets = <<"none">> THEN error
            ELSE [i \in 1..Len(decision.targets) |->
                     [target |-> decision.targets[i], type |-> decision.action]]
    IN  IF explicit /\ PipelineStatus(request.pipeline, request) = "failed" THEN error
        ELSE CASE request.intent \in {"store", "retrieve", "query", "learn"} ->
                    IF /\ request.intent = "store"
                       /\ request.name = "nonstr"
                       /\ RouteStorageRequest(request).error = "none"
                    THEN <<>>
                    ELSE To(RouteStorageRequest(request))
               [] request.intent = "natural_language" ->
                    <<[target |-> "athena", type |-> "nlp_request"]>>
               [] request.intent = "compute" ->
                    IF request.simple THEN <<[target |-> "zeus", type |-> "evaluate_code"]>>
                    ELSE <<[target |-> "athena", type |-> "complex_computation"]>>
               [] OTHER ->
                    <<[target |-> Head(RouteRequest(request.intent)),
                       type |-> request.intent]>>

\* request: the unified request sent.  run: the pipelines executed for it, with
\* the status of each.  routed: the calls made for it; sent: those whose
\* target has a receiver, which got the message.
URInit == ur = [request |-> NoUnified, state |-> "idle", run |-> <<>>, routed |-> <<>>,
                sent |-> <<>>]

URInputs ==
    \E r \in UnifiedRequests :
        ur = [request |-> r, state |-> "new", run |-> <<>>, routed |-> <<>>, sent |-> <<>>]

\* zeus_ermis_interface.request(intent, data, wait_for_response=False):
\* send_message_full(source, 'ermis', message, 'unified_request').
SendUnified ==
    /\ ur.state = "new"
    /\ SendMessageFullOf(Message(Len(sendLog) + 1, ur.request.source, "ermis",
                                 [request_id |-> 0, response_to |-> "none"],
                                 "unified_request"))
    /\ ur' = [ur EXCEPT !.state = "sent"]
    /\ UNCHANGED <<loadable, mRunning, mDrain, mRouter, mCtl, drained>>
    /\ UNCHANGED <<rcvRunning, rcvWorker, rcvThread, rcvCtl, handled>>
    /\ UNCHANGED <<rrVars, rhVars, reqVars, san, rl, val, customRoutes, pipe, bc>>

RECURSIVE ReceivedAll(_, _, _)
\* receive_message of the receiver of every target of the calls that has one.
ReceivedAll(q, calls, id) ==
    IF calls = <<>> THEN q
    ELSE ReceivedAll([q EXCEPT ![Head(calls).target] =
                         Received(@, [id |-> id, source |-> "ermis", type |-> Head(calls).type,
                                      data |-> [request_id |-> 0, response_to |-> "none"]])],
                     Tail(calls), id)

\* A faulty drain loop: an exception ends the thread
DrainAfter_Dies(drain, raised) ==
    IF raised THEN NoDrain
    ELSE [pc |-> "scan", i |-> drain.i + 1, msg |-> NoMsg]

\* _route_messages after the body for one message: the next god of the pass,
\* or, when the body raised, "except Exception" inside "while self.running":
\* the rest of the pass is left out and the loop goes on with its test.
DrainAfter(drain, raised) ==
    IF raised THEN [NoDrain EXCEPT !.pc = "top"]
    ELSE [pc |-> "scan", i |-> drain.i + 1, msg |-> NoMsg]

\* _route_messages, the body for a message of type 'unified_request':
\* _handle_unified_request(msg).
HandleUnifiedRequest(d) ==
    /\ mDrain[d].pc = "got"
    /\ mDrain[d].msg.msg_type = "unified_request"
    /\ LET request == ur.request
           InReceivers(c) == c.target \in receivers
           sent == SelectSeq(Routed(request), InReceivers)
       IN  /\ ur' = [ur EXCEPT
                       !.state = "handled",
                       !.run = [i \in 1..Len(PipelinesRun(request)) |->
                                   [name |-> PipelinesRun(request)[i],
                                    status |-> PipelineStatus(PipelinesRun(request)[i],
                                                              request)]],
                       !.routed = Routed(request),
                       !.sent = sent]
           /\ rcvQueue' = ReceivedAll(rcvQueue, sent, mDrain[d].msg.id)
    /\ drained' = drained \cup {mDrain[d].msg.id}
    /\ mDrain' = [mDrain EXCEPT ![d] = DrainAfter(mDrain[d], Raises(ur.request))]
    /\ UNCHANGED <<loadable, receivers, receiversLoaded, mRunning, mQueues, mRouter, mCtl>>
    /\ UNCHANGED <<rcvRunning, rcvWorker, rcvThread, rcvCtl, handled>>
    /\ UNCHANGED <<sendLog, rrVars, rhVars, reqVars, san, rl, val, customRoutes, pipe, bc>>

\* Other messages on their way: athena sends to cronos, through the mailbox
\* when the receiver of cronos is not loaded.
URSends == {<<"athena", "cronos", "test_message">>}

URNext ==
    \/ SendUnified
    \/ \E s \in URSends : SendMessageFull(s[1], s[2], s[3])
    \/ MessengerStart
    \/ \E d \in 1..MaxDrains : DrainLoop(d)
    \/ \E d \in 1..MaxDrains : DrainGet(d)
    \/ \E d \in 1..MaxDrains : DrainDeliver(d)
    \/ \E d \in 1..MaxDrains : HandleUnifiedRequest(d)

----------------------------------------------------------------------------
(* ErmisMessenger.broadcast_message and Message.id  (ermis_messenger.py) *)

\* Message.__init__: self.id = f"{source}-{destination}-{self.timestamp}".
\* No god name holds a "-" and the timestamp is a positive float, so the string
\* is as different as its three parts are.
MessageId(source, destination, timestamp) == <<source, destination, timestamp>>

\* The broadcast_message calls made: the source and the exclude list given.
\* "hades" is not one of GODS.
Broadcasts ==
    [source : {"zeus", "athena", "hades"}, exclude : {<<>>, <<"cronos">>}]

\* The elements of a list.
Elements(list) == {list[i] : i \in 1..Len(list)}

\* source, given: the arguments of the running call; exclude: the list the
\* call works on, which is the caller's list when one was given; i: position
\* of its loop in GODS; results: the entries of its dict, in insertion order;
\* calls: calls begun; clock: the reading time.time() gives; created: the
\* Message objects the calls created, with their number and their id.
NoBroadcast ==
    [pc |-> "none", source |-> "none", given |-> <<>>, exclude |-> <<>>, i |-> 1,
     results |-> <<>>, calls |-> 0, clock |-> 0, created |-> <<>>]

BcInit == bc = NoBroadcast

BcInputs == bc = [NoBroadcast EXCEPT !.pc = "idle"]

\* time.time() gives a later reading.
Tick ==
    /\ bc.pc # "none"
    /\ bc.clock < MaxClock
    /\ bc' = [bc EXCEPT !.clock = @ + 1]
    /\ UNCHANGED <<rrVars, msgVars, rcvVars, sendLog, rhVars, reqVars>>
    /\ UNCHANGED <<san, rl, val, customRoutes, pipe, ur>>

\* broadcast_message up to its loop: "exclude = exclude or []" and
\* "exclude.append(source)".
BroadcastBegin ==
    /\ bc.pc \in {"idle", "done"}
    /\ bc.calls < MaxBroadcasts
    /\ \E b \in Broadcasts :
          bc' = [bc EXCEPT !.pc = "loop", !.source = b.source, !.given = b.exclude,
                           !.exclude = Append(b.exclude, b.source), !.i = 1,
                           !.results = <<>>, !.calls = @ + 1]
    /\ UNCHANGED <<rrVars, msgVars, rcvVars, sendLog, rhVars, reqVars>>
    /\ UNCHANGED <<san, rl, val, customRoutes, pipe, ur>>

\* One pass of "for god in GODS": a god in exclude is skipped, for any other
\* results[god] = self.send_message_full(source, god, content, msg_type),
\* which creates the Message once source and destination are found valid.
BroadcastSend ==
    /\ bc.pc = "loop"
    /\ bc.i <= Len(GODS)
    /\ LET god == GODS[bc.i]
           msg == Message(Len(sendLog) + 1, bc.source, god,
                          [request_id |-> 0, response_to |-> "none"], "broadcast")
       IN  IF god \in Elements(bc.exclude)
           THEN /\ bc' = [bc EXCEPT !.i = @ + 1]
                /\ UNCHANGED <<receivers, receiversLoaded, rcvQueue, mQueues, sendLog>>
           ELSE /\ SendMessageFullOf(msg)
                /\ bc' = [bc EXCEPT
                            !.i = @ + 1,
                            !.results = Append(@, [god |-> god,
                                                   ok |-> SendResult(bc.source, god)]),
                            !.created =
                                IF SendPath(bc.source, god) = "invalid" THEN @
                                ELSE Append(@, [msg |-> msg.id,
                                                id |-> MessageId(bc.source, god, bc.clock)])]
    /\ UNCHANGED <<loadable, mRunning, mDrain, mRouter, mCtl, drained>>
    /\ UNCHANGED <<rcvRunning, rcvWorker, rcvThread, rcvCtl, handled>>
    /\ UNCHANGED <<rrVars, rhVars, reqVars, san, rl, val, customRoutes, pipe, ur>>

\* broadcast_message: "return results".
BroadcastReturn ==
    /\ bc.pc = "loop"
    /\ bc.i > Len(GODS)
    /\ bc' = [bc EXCEPT !.pc = "done"]
    /\ UNCHANGED <<rrVars, msgVars, rcvVars, sendLog, rhVars, reqVars>>
    /\ UNCHANGED <<san, rl, val, customRoutes, pipe, ur>>

BcNext ==
    \/ Tick
    \/ BroadcastBegin
    \/ BroadcastSend
    \/ BroadcastReturn
    \/ MessengerStart
    \/ \E d \in 1..MaxDrains : DrainLoop(d)
    \/ \E d \in 1..MaxDrains : DrainGet(d)
    \/ \E d \in 1..MaxDrains : DrainDeliver(d)

----------------------------------------------------------------------------
(* Specifications *)

CoreInit == RRInit /\ RHInit /\ MsgInit /\ ReqInit

Init == CoreInit /\ SanInit /\ RateInit /\ ValInit /\ RouteInit /\ PipeInit /\ URInit /\ BcInit

\* The correlator does not read which receivers can be loaded.
InitRR == Init /\ loadable = RcvGods

\* A request with data from zeus is about to be validated.
InitSan ==
    CoreInit /\ loadable = RcvGods /\ SanInputs /\ RateInit /\ ValInit /\ RouteInit /\ PipeInit /\ URInit /\ BcInit

\* A request is about to be validated again and again.
InitVal ==
    CoreInit /\ loadable = RcvGods /\ SanInit /\ RateInit /\ ValInputs /\ RouteInit /\ PipeInit /\ URInit /\ BcInit

\* The request-response correlator on its own.
SpecRR == Init /\ [][RRNext]_vars

\* The messenger, its mailboxes and drain loop, and the receivers.
SpecMsg == Init /\ [][MsgNext]_vars

\* Requests routed by Olympus, their consumers' answers, and the response
\* handler, clocked in seconds.
SpecReq == Init /\ [][ReqNext]_vars


\* The validation of a request's data and the delivery of the request.
SpecSan == InitSan /\ [][SanNext]_vars

\* The threads that call check_rate with one key, clocked in half minutes.
SpecRate == InitRR /\ [][RateNext]_vars

\* validate_request called again and again with one request.
SpecVal == InitVal /\ [][ValNext]_vars

\* Custom routes added to Olympus, and requests routed.
SpecRoute == InitRR /\ [][RouteNext]_vars

\* A pipeline and a request are about to be executed.
InitPipe ==
    CoreInit /\ loadable = RcvGods /\ SanInit /\ RateInit /\ ValInit /\ RouteInit /\ PipeInputs /\ URInit /\ BcInit

\* The executions of one pipeline on one request.
SpecPipe == InitPipe /\ [][PipeNext]_vars

\* A unified request is about to be sent to the messenger; the receiver of
\* cronos may fail to load.
InitUR ==
    /\ RRInit /\ RHInit /\ ReqInit /\ MsgIdle
    /\ loadable \in {RcvGods, RcvGods \ {"cronos"}}
    /\ SanInit /\ RateInit /\ ValInit /\ RouteInit /\ PipeInit /\ URInputs /\ BcInit

\* A unified request, from the send to its handling in the drain loop.
SpecUR == InitUR /\ [][URNext]_vars

\* Broadcasts are about to be made through a messenger just constructed.
InitBc ==
    /\ RRInit /\ RHInit /\ ReqInit /\ MsgInit
    /\ SanInit /\ RateInit /\ ValInit /\ RouteInit /\ PipeInit /\ URInit /\ BcInputs

\* broadcast_message calls, with the messenger started at any moment.
SpecBc == InitBc /\ [][BcNext]_vars

\* Executions of a pipeline, and the handler threads that outlive their timeout.
SpecTimeout == InitPipe /\ [][TimeoutNext]_vars

\* The drain thread of a started messenger is scheduled again and again.
FairSpecUR ==
    /\ SpecUR
    /\ \A d \in 1..MaxDrains :
          /\ WF_vars(DrainLoop(d))
          /\ WF_vars(DrainGet(d))
          /\ WF_vars(DrainDeliver(d))
          /\ WF_vars(HandleUnifiedRequest(d))

\* start and stop are about to be called on a messenger just constructed;
\* there is room for the threads of MaxStarts calls of start.
InitStart ==
    /\ RRInit /\ RHIdle(MaxStarts) /\ ReqInit /\ MessengerIdle(MaxStarts)
    /\ loadable = RcvGods
    /\ SanInit /\ RateInit /\ ValInit /\ RouteInit /\ PipeInit /\ URInit /\ BcInit

\* A message for the mailbox of ermis, which has no receiver.
StartSends == {<<"zeus", "ermis", "test_message">>}

StartNext ==
    \/ MessengerStart
    \/ MessengerStopBegin
    \/ MessengerStopJoined
    \/ \E s \in StartSends : SendMessageFull(s[1], s[2], s[3])
    \/ \E d \in 1..MaxStarts : DrainLoop(d)
    \/ \E d \in 1..MaxStarts : DrainGet(d)
    \/ \E d \in 1..MaxStarts : DrainDeliver(d)
    \/ \E t \in 1..MaxStarts : RHSweepScan(t)

\* Calls of start and stop on the messenger, with messages in a mailbox.
SpecStart == InitStart /\ [][StartNext]_vars
\* The steps of one waiting caller: a blocked get that can return, and the
\* statements after it.
RRWaitStep(w) == RRWaitGet(w) \/ RRWaitTimeout(w) \/ RRWaitRemove(w)

\* The steps of one handle_response call after its lookup.
RRHandleStep(h) == RRHandlePut(h) \/ RRHandleRemove(h)

\* The steps of one cleanup thread.
RRSweepStep(t) == RRSweepScan(t) \/ RRSweepRemove(t)


\* Every thread that can run does run, and time does not stop: the clock
\* advances again and again, however often start and stop are called.
FairSpecRR ==
    /\ InitRR
    /\ [][RRNext]_vars
    /\ \A w \in 1..MaxWaiters : WF_vars(RRWaitStep(w))
    /\ \A h \in 1..MaxHandlers : WF_vars(RRHandleStep(h))
    /\ \A t \in 1..MaxSweepers : WF_vars(RRSweepStep(t))
    /\ SF_vars(TickRR)

----------------------------------------------------------------------------
(* Claims about the request-response correlator *)

\* C2: when handle_response is called twice for one request id, the second
\* call (one that starts after an earlier call for that id returned True)
\* returns False and puts nothing into the waiting slot.
C2_SecondHandleReturnsFalse ==
    \A h \in 1..MaxHandlers :
        (rrHand[h].pc = "done" /\ rrHand[h].afterTrue)
            => (~rrHand[h].ret /\ ~rrHand[h].put)

\* C3: a wait_for_response(id, T) that was given a timeout T is never still
\* blocked later than T plus one cleanup interval after it was issued.
C3_WaitReturnsWithinTimeout ==
    \A w \in 1..MaxWaiters :
        (rrWait[w].pc # "idle" /\ rrWait[w].T # NoneT)
            => rrWait[w].elapsed <= rrWait[w].T + RRCleanupInterval

\* C5 (as stated): every pending entry is eventually removed from the map.
C5_EveryEntryRemoved ==
    \A id \in RIds : rrPending[id].present ~> ~rrPending[id].present

\* C5 (amended): every pending entry is eventually removed from the map or
\* the correlator is not running (never started, or stopped).
C5_EntryRemovedWhileRunning ==
    \A id \in RIds : rrPending[id].present ~> (~rrPending[id].present \/ ~rrRunning)

\* C5 witness: the cleanup thread has evicted an entry nobody waited on or
\* answered.
C5_Witness ==
    \E id \in RIds :
        /\ rrPending[id].gone = "sweeper"
        /\ \A w \in 1..MaxWaiters : rrWait[w].pc = "idle"
        /\ \A h \in 1..MaxHandlers : rrHand[h].pc = "idle"

\* C6: a handle_response that starts after the entry of its request id was
\* removed by the waiter's timeout or by cancel_request returns False and puts
\* nothing into the slot.
C6_LateResponseDropped ==
    \A h \in 1..MaxHandlers :
        (rrHand[h].pc # "idle" /\ rrHand[h].late)
            => (rrHand[h].pc = "done" /\ ~rrHand[h].ret /\ ~rrHand[h].put)

\* C6 witness: the waiter timed out, and a later handle_response has returned.
C6_Witness ==
    \E h \in 1..MaxHandlers, w \in 1..MaxWaiters :
        /\ rrHand[h].pc = "done" /\ rrHand[h].late
        /\ rrWait[w].pc = "done" /\ rrWait[w].why = "timed out"
        /\ rrWait[w].id = rrHand[h].id
        /\ rrPending[rrHand[h].id].gone = "timeout"

\* The blocking get of waiter w can return now.
RRWaitReleasable(w) == rrSlot[rrWait[w].id] # <<>> \/ rrWait[w].rem = 0

\* C7: a caller blocked in wait_for_response(id) is released by
\* cancel_request(id): once the request is cancelled its get can return.
C7_CancelReleasesWaiter ==
    \A w \in 1..MaxWaiters :
        (rrWait[w].pc = "blocked" /\ rrPending[rrWait[w].id].gone = "cancel")
            => RRWaitReleasable(w)

----------------------------------------------------------------------------
(* Claims about the messenger and the receivers *)

\* C1: of two messages sent with send_message_full to the same destination
\* over the same path, the send of the first returning before the send of the
\* second starts, the handler of the destination is invoked for the first
\* before it is invoked for the second.
C1_DeliveryOrder ==
    \A i, j \in 1..Len(sendLog) :
        LET a == sendLog[i]
            b == sendLog[j]
            g == a.msg.destination
        IN  (/\ i < j
             /\ a.ret /\ b.ret
             /\ a.path = b.path
             /\ g = b.msg.destination
             /\ g \in RcvGods)
                => \A q \in 1..Len(handled[g]) :
                      handled[g][q].id = b.msg.id
                          => \E p \in 1..(q - 1) : handled[g][p].id = a.msg.id

\* C8: a message that send_message_full accepted into a mailbox and the drain
\* loop has dequeued (other than a response, which goes to the response
\* handler) has been handed to the receiver of its destination, with the
\* source, type and data direct delivery passes.
C8_DequeuedReachesReceiver ==
    \A i \in 1..Len(sendLog) :
        LET e == sendLog[i]
            g == e.msg.destination
        IN  (/\ e.path = "queue" /\ e.ret
             /\ e.msg.msg_type # "response"
             /\ e.msg.id \in drained)
                => /\ g \in RcvGods
                   /\ \/ \E p \in 1..Len(rcvQueue[g]) : rcvQueue[g][p] = RcvDict(e.msg)
                      \/ \E k \in 1..MaxWorkers :
                            /\ rcvWorker[g][k].pc = "got"
                            /\ rcvWorker[g][k].msg = RcvDict(e.msg)
                      \/ \E p \in 1..Len(handled[g]) : handled[g][p] = RcvDict(e.msg)

----------------------------------------------------------------------------
(* Claims about requests and their responses *)

\* C4: when the consumer of a request answered through send_response while
\* the requester was blocked in send_request_and_wait with time left, the
\* call of the requester returns that response.
C4_ReplyResolvesWait ==
    \A c \in 1..MaxCalls :
        (call[c].pc = "done" /\ call[c].inTime)
            => (call[c].result.kind = "response" /\ call[c].result.id = call[c].reply)

\* C10 (as stated): for a request that passed validation, the attempts go to
\* the primary target and then to the fallback targets in list order, one
\* target at most is delivered to, and send_request returns False only when
\* the delivery to the primary and to every fallback target failed.
C10_FallbackOrder ==
    \A c \in 1..MaxCalls :
        LET k == call[c]
            n == Len(k.attempts)
        IN  (k.verdict = "valid" /\ k.pc \notin {"idle", "try"})
                => /\ n <= Len(k.targets)
                   /\ \A i \in 1..n : k.attempts[i].target = k.targets[i]
                   /\ \A i \in 1..(n - 1) : ~k.attempts[i].ok
                   /\ k.ret <=> (n > 0 /\ k.attempts[n].ok)
                   /\ ~k.ret => n = Len(k.targets)

\* C10 (amended): for a request that passed validation, the attempts go to
\* the primary target and then to the fallback targets in list order, the
\* targets equal to the sender left out; every attempt before the last
\* failed; send_request returns True exactly when the last attempt succeeded,
\* and False only when every target other than the sender was tried and failed.
C10_FallbackOrderSkippingSender ==
    \A c \in 1..MaxCalls :
        LET k == call[c]
            n == Len(k.attempts)
            Other(t) == t # k.source
            order == SelectSeq(k.targets, Other)
            returned == k.pc \notin {"idle", "try"}
        IN  k.verdict = "valid"
                => /\ n <= Len(order)
                   /\ \A i \in 1..n : k.attempts[i].target = order[i]
                   /\ \A i \in 1..(n - 1) : ~k.attempts[i].ok
                   /\ Cardinality({i \in 1..n : k.attempts[i].ok})
                         = IF returned /\ k.ret THEN 1 ELSE 0
                   /\ returned => (k.ret <=> (n > 0 /\ k.attempts[n].ok))
                   /\ (returned /\ ~k.ret) => n = Len(order)

\* C10 witness: the delivery to the primary target failed, the delivery to the
\* fallback target succeeded, and send_request returned True.
C10_Witness ==
    \E c \in 1..MaxCalls :
        /\ call[c].pc = "done"
        /\ call[c].ret
        /\ Len(call[c].attempts) = 2
        /\ ~call[c].attempts[1].ok
        /\ call[c].attempts[2].ok
        /\ \E p \in 1..Len(rcvQueue[call[c].attempts[2].target]) :
              rcvQueue[call[c].attempts[2].target][p].source = call[c].source


\* C11: when the delivery of a request failed on the primary target and on
\* every fallback target, and the sender asked for a response
\* (send_request_and_wait), an error response is made and delivered back to
\* the sender.
C11_ErrorResponseOnFailedDelivery ==
    \A c \in 1..MaxCalls :
        (call[c].pc = "done" /\ call[c].wait /\ call[c].verdict = "valid" /\ ~call[c].ret)
            => \/ call[c].result.kind \in {"error", "response"}
               \/ \E i \in 1..Len(sendLog) :
                     /\ sendLog[i].msg.destination = call[c].source
                     /\ sendLog[i].msg.msg_type = "error_response"

\* C12: a request that fails validation is never routed: it gets no primary
\* and no fallback target, send_request returns False, no receiver and no
\* mailbox gets a message for it, and when its sender is not among the allowed
\* senders of the policy the reason names that sender.
C12_InvalidNeverRouted ==
    /\ \A c \in 1..MaxCalls :
          LET k == call[c]
              policy == GetPolicy(k.type)
              refused == \/ k.source \notin policy.allowed_gods
                         \/ k.verdict \in {"rate limit", "size", "custom validator"}
          IN  (k.pc # "idle" /\ refused)
                  => /\ k.targets = <<>>
                     /\ k.attempts = <<>>
                     /\ k.pc = "done"
                     /\ ~k.ret
                     /\ k.source \notin policy.allowed_gods
                           => (k.reason.text = "not authorized"
                               /\ k.reason.sender = k.source)
    /\ \A i \in 1..Len(sendLog) :
          sendLog[i].msg.msg_type # "response"
              => \E c \in 1..MaxCalls :
                    /\ call[c].verdict = "valid"
                    /\ call[c].source = sendLog[i].msg.source
                    /\ call[c].type = sendLog[i].msg.msg_type
                    /\ \E j \in 1..Len(call[c].attempts) :
                          call[c].attempts[j].target = sendLog[i].msg.destination

\* C12 witness: a request from a sender outside the allowed senders has
\* returned False, and a request that passed validation was delivered.
C12_Witness ==
    \E c, d \in 1..MaxCalls :
        /\ call[c].pc = "done"
        /\ call[c].source \notin GetPolicy(call[c].type).allowed_gods
        /\ call[c].reason.sender = call[c].source
        /\ ~call[c].ret
        /\ call[d].verdict = "valid"
        /\ call[d].ret

----------------------------------------------------------------------------
(* Claims about the data of a validated request *)

\* C13: after a successful validation only the sanitized copy is used: every
\* message delivered for a validated request, by send_request and by the
\* storage routing of a unified request, carries the sanitized data.
C13_DeliveredDataSanitized ==
    (san.state = "done" /\ san.valid)
        => \A i \in 1..Len(san.delivered) :
              san.delivered[i].data = SanitizeData(san.data, 0)

\* C14: for a data tree nested no deeper than MAX_RECURSION_DEPTH, no string
\* in which a dangerous pattern matches is anywhere in the sanitized data that
\* validate_request returns, whatever the length of the string and whether it
\* is in a dict or in a list.
C14_SanitizedHasNoDangerousString ==
    (san.valid /\ Depth(san.data) <= MAX_RECURSION_DEPTH) => ~HasDangerous(san.sanitized)

----------------------------------------------------------------------------
(* Claims about the rate limit and the verdict of validate_request *)

\* C15: for a sender and an operation, at most rateLimitPerMinute requests
\* pass the rate check in any rolling 60-second window, and a request that
\* arrives when the window holds the limit is refused.
C15_AtMostLimitPerWindow ==
    /\ Len(PassedInWindow) <= RateLimit
    /\ \A i \in 1..Len(rl.returned) : rl.returned[i].atLimit => ~rl.returned[i].ok

\* C16 (as stated): validate_request called twice in a row with the same
\* request and sender, no other validation in between, gives the same valid
\* verdict.
C16_SameVerdictTwice ==
    \A i \in 1..(Len(val.verdicts) - 1) :
        (val.verdicts[i] = "valid") <=> (val.verdicts[i + 1] = "valid")

\* C16 (amended): two calls of validate_request in a row with the same
\* request and sender give the same verdict, unless one of the two is the
\* refusal by the rate limit: each call that gets past the sender check adds
\* to the window the next call is counted against.
C16_SameVerdictUnlessRateLimit ==
    \A i \in 1..(Len(val.verdicts) - 1) :
        val.verdicts[i] # val.verdicts[i + 1]
            => "rate limit" \in {val.verdicts[i], val.verdicts[i + 1]}

\* C16 witness: a request refused for its size was validated twice in a row,
\* and refused both times.
C16_Witness ==
    /\ Len(val.verdicts) >= 2
    /\ val.verdicts[1] = "size"
    /\ val.verdicts[2] = "size"

----------------------------------------------------------------------------
(* Claims about routing *)

\* C17: after any sequence of add_custom_route calls, route_request returns
\* a primary target, and does not fail, for every request type that is in the
\* mapping.
C17_MappedTypeHasPrimary ==
    /\ customRoutes.last.state # "raised"
    /\ customRoutes.last.state = "returned" => customRoutes.last.primary # "none"

----------------------------------------------------------------------------
(* Claims about pipelines *)

\* The names of the first n stages of the pipeline.
StageNames(n) == {pipe.stages[i].name : i \in 1..n}

\* C18: when a stage ends FAILED the execution stops at once: the result has
\* status failed and carries the error of that stage, the ledger holds
\* exactly the stages up to and including the failing one, and no handler of
\* a later stage is ever invoked.
C18_AbortOnFailure ==
    \A e \in 1..MaxRuns :
        LET r == pipe.run[e]
            f == r.failedAt
        IN  f # 0
              => /\ r.pc = "done"
                 /\ r.status = "failed"
                 /\ r.idx = f
                 /\ r.error.stage = pipe.stages[f].name
                 /\ r.error.error = r.recorded[Len(r.recorded)].error
                 /\ r.recorded[Len(r.recorded)].idx = f
                 /\ r.recorded[Len(r.recorded)].status = "failed"
                 /\ Len(r.recorded) = f
                 /\ \A i \in 1..f : r.recorded[i].idx = i /\ r.completed[i] = pipe.stages[i].name
                 /\ {r.results[i].name : i \in 1..Len(r.results)} = StageNames(f)
                 /\ \A i \in 1..Len(r.results) :
                       r.results[i].name = pipe.stages[f].name => r.results[i].status = "failed"
                 /\ \A i \in 1..Len(r.calls) : r.calls[i] <= f

\* C18 witness: the second stage of three failed after the first had
\* completed; its handler was invoked, the third one's was not.
C18_Witness ==
    \E e \in 1..MaxRuns :
        /\ Len(pipe.stages) = 3
        /\ pipe.run[e].failedAt = 2
        /\ pipe.run[e].recorded[1].status = "completed"
        /\ pipe.run[e].pc = "done"
        /\ \E i \in 1..Len(pipe.run[e].calls) : pipe.run[e].calls[i] = 2

\* How often the handler of stage i was invoked in execution e.
Invocations(e, i) == Len(SelectSeq(pipe.run[e].calls, LAMBDA j : j = i))

\* The stages of execution e that were run and recorded.
Executed(e) ==
    {n \in 1..Len(pipe.run[e].recorded) : pipe.run[e].recorded[n].status # "skipped"}

\* C19 (as stated): a stage with retry_count r whose handler fails on every
\* attempt is invoked exactly r + 1 times before it is recorded FAILED, and a
\* stage whose handler succeeds on attempt k <= r + 1 is invoked exactly k
\* times and recorded COMPLETED.
C19_RetryCount ==
    \A e \in 1..MaxRuns : \A n \in Executed(e) :
        LET rec == pipe.run[e].recorded[n]
            stage == pipe.stages[rec.idx]
            r == stage.retry_count
            succeeds == {k \in 1..(r + 1) : Outcome(stage, k) = "ok"}
        IN  /\ succeeds = {}
                 => (Invocations(e, rec.idx) = r + 1 /\ rec.status = "failed")
            /\ \A k \in succeeds :
                 (\A j \in 1..(k - 1) : j \notin succeeds)
                     => (Invocations(e, rec.idx) = k /\ rec.status = "completed")

\* C19 (amended): a stage with retry_count r whose handler raises on every
\* attempt is invoked exactly r + 1 times and then recorded FAILED, or with
\* the result of its on_error handler when that returns one; a stage whose
\* handler returns at attempt k <= r + 1 after raising k - 1 times is invoked
\* exactly k times and recorded with what it returned, COMPLETED or FAILED,
\* and a handler that runs into the timeout at attempt k is recorded FAILED
\* after k invocations: only an exception is retried.
C19_RetryCountOfRaising ==
    \A e \in 1..MaxRuns : \A n \in Executed(e) :
        LET rec == pipe.run[e].recorded[n]
            stage == pipe.stages[rec.idx]
            r == stage.retry_count
            returns == {k \in 1..(r + 1) : Outcome(stage, k) # "raise"}
        IN  /\ returns = {}
                 => /\ Invocations(e, rec.idx) = r + 1
                    /\ rec.status = IF stage.on_error = "recover" THEN "completed"
                                    ELSE "failed"
            /\ \A k \in returns :
                 (\A j \in 1..(k - 1) : j \notin returns)
                     => /\ Invocations(e, rec.idx) = k
                        /\ rec.status = IF Outcome(stage, k) = "ok" THEN "completed"
                                        ELSE "failed"

\* C19 witness: a stage with retry_count 2 whose handler raises every time was
\* recorded FAILED after three invocations, and one whose handler raises once
\* was recorded COMPLETED after two.
C19_Witness ==
    \E e \in 1..MaxRuns : \E n, m \in Executed(e) :
        LET a == pipe.run[e].recorded[n]
            b == pipe.run[e].recorded[m]
        IN  /\ pipe.stages[a.idx].retry_count = 2
            /\ pipe.stages[a.idx].outcomes = <<"raise">>
            /\ a.status = "failed"
            /\ Invocations(e, a.idx) = 3
            /\ pipe.stages[b.idx].outcomes = <<"raise", "ok">>
            /\ b.status = "completed"
            /\ Invocations(e, b.idx) = 2

----------------------------------------------------------------------------
(* Claims about the mailboxes and the receivers *)

\* C22: no mailbox of the messenger ever holds more messages than its
\* capacity, and a send_message_full call whose destination has no receiver
\* and whose mailbox is full returns False and leaves every mailbox as it was.
C22_Backpressure ==
    /\ [](\A g \in GodSet : Len(mQueues[g]) <= MailboxSize)
    /\ [][(/\ Len(sendLog') = Len(sendLog) + 1
           /\ sendLog'[Len(sendLog')].path = "queue"
           /\ Len(mQueues[sendLog'[Len(sendLog')].msg.destination]) >= MailboxSize)
             => (~sendLog'[Len(sendLog')].ret /\ mQueues' = mQueues)]_vars

\* C22 witness: a send to a god without receiver has returned False, and the
\* mailbox of that god is full.
C22_Witness ==
    \E i \in 1..Len(sendLog) :
        /\ sendLog[i].path = "queue"
        /\ ~sendLog[i].ret
        /\ Len(mQueues[sendLog[i].msg.destination]) = MailboxSize

\* C25: when stop() of a receiver has returned and start() has not been
\* called since, no handler of that receiver is being run: none is still in
\* progress and none has started.
C25_NoHandlerAfterStop ==
    \A g \in RcvGods :
        (rcvCtl[g] = "idle" /\ ~rcvRunning[g])
            => \A k \in 1..MaxWorkers : rcvWorker[g][k].pc # "handling"

----------------------------------------------------------------------------
(* Claims about the correlator *)

\* C27: right after a handle_response(id, data) call that returned True, the
\* correlator holds no pending entry for id.
C27_EntryGoneAfterHandle ==
    [][\A h \in 1..MaxHandlers :
          (rrHand[h].pc = "put" /\ rrHand'[h].pc = "done" /\ rrHand'[h].ret)
              => ~rrPending'[rrHand[h].id].present]_vars

\* C28: when the sweeper evicts an expired entry on which a caller is
\* blocked, it puts a timeout result into the slot of that entry, so that the
\* caller is woken by the eviction.
C28_SweeperWakesWaiter ==
    [][\A t \in 1..MaxSweepers :
          (/\ rrSweep[t].pc = "remove"
           /\ rrSweep'[t] # rrSweep[t]
           /\ rrPending[Head(rrSweep[t].expired)].present
           /\ \E w \in 1..MaxWaiters :
                 rrWait[w].pc = "blocked" /\ rrWait[w].id = Head(rrSweep[t].expired))
              => rrSlot'[Head(rrSweep[t].expired)] # <<>>]_vars

----------------------------------------------------------------------------
(* Claims about unified requests *)

\* The data of the store request is none of the special cases of
\* _route_store_request.
DefaultStore(request) ==
    /\ request.intent = "store"
    /\ request.name = "plain"
    /\ request.type = "variable"
    /\ ~request.session_id
    /\ ~request.large

\* The messages the receiver of god holds for the unified request.
HeldBy(god) == Len(SelectSeq(rcvQueue[god], LAMBDA m : m.source = "ermis"))

C24_CacheFirst ==
    (ur.state = "handled" /\ ur.request.intent = "retrieve" /\ ur.request.cached)
        => /\ HeldBy("cronos") = 0
           /\ \A i \in 1..Len(ur.routed) : ur.routed[i].target # "cronos"

\* C29: when a pipeline executed for a unified request, named in the request
\* or chosen from the intent, ended with status failed, the request is
\* delivered to no target.
C29_FailedPipelineNotDelivered ==
    (ur.state = "handled" /\ \E i \in 1..Len(ur.run) : ur.run[i].status = "failed")
        => \A i \in 1..Len(ur.routed) : ur.routed[i].type = "error_response"

----------------------------------------------------------------------------
(* Claims about broadcast_message and Message.id *)

\* The gods that have an entry in the dict broadcast_message returns.
ResultKeys == {bc.results[i].god : i \in 1..Len(bc.results)}

\* The destinations the calls of send_message_full of the running broadcast
\* attempted a delivery to.
Attempted ==
    {sendLog[i].msg.destination :
        i \in {j \in (Len(sendLog) - Len(bc.results) + 1)..Len(sendLog) :
                  sendLog[j].path # "invalid"}}

\* C21: the dict broadcast_message returns has exactly one entry for every
\* registered component other than the source and the excluded ones, delivery
\* was attempted to exactly those, the source has received nothing of its
\* own broadcast, and with four registered components and only the sender
\* excluded the dict has exactly three entries.
C21_BroadcastEntries ==
    bc.pc = "done" =>
        /\ ResultKeys = receivers \ ({bc.source} \cup Elements(bc.given))
        /\ Cardinality(ResultKeys) = Len(bc.results)
        /\ Attempted = receivers \ ({bc.source} \cup Elements(bc.given))
        /\ bc.source \in RcvGods =>
              \A i \in 1..Len(rcvQueue[bc.source]) :
                  rcvQueue[bc.source][i].source # bc.source
        /\ (Cardinality(receivers) = 4 /\ bc.given = <<>> /\ bc.source \in receivers)
              => Cardinality(ResultKeys) = 3

\* C26: any two Message objects created by sends have different ids, two
\* sends with the same source and destination at the same clock reading
\* included.
C26_UniqueIds ==
    \A i, j \in 1..Len(bc.created) :
        i # j => bc.created[i].id # bc.created[j].id

----------------------------------------------------------------------------
(* Claims about the timeout of a stage *)

\* The data as of the last completed stage of execution e: the request and
\* what the stages recorded COMPLETED have added.
DataOfCompleted(e) ==
    pipe.input \cup
        ({pipe.stages[pipe.run[e].recorded[n].idx].adds :
             n \in {m \in 1..Len(pipe.run[e].recorded) :
                       pipe.run[e].recorded[m].status = "completed"}} \ {"none"})

\* C30: a stage whose handler has not returned when the timeout expires is
\* recorded FAILED with the timeout as reason and the result of the pipeline
\* is failed; the data of the returned result is the data as of the last
\* completed stage, and the abandoned handler, which may still run, does not
\* change it.
C30_TimeoutKeepsData ==
    \A e \in 1..MaxRuns :
        Abandoned(pipe.run[e])
            => /\ pipe.run[e].pc = "done"
               /\ pipe.run[e].status = "failed"
               /\ pipe.run[e].recorded[Len(pipe.run[e].recorded)].status = "failed"
               /\ pipe.run[e].error.error = "timed out"
               /\ CurrentData(pipe.run, e) = DataOfCompleted(e)

----------------------------------------------------------------------------
(* Claims about skipped stages *)

\* The condition of the stage execution e is about to look at is false on
\* the current data.
ConditionFalse(e) ==
    /\ pipe.run[e].pc = "stage"
    /\ pipe.run[e].idx <= Len(pipe.stages)
    /\ pipe.stages[pipe.run[e].idx].needs # "none"
    /\ pipe.stages[pipe.run[e].idx].needs \notin pipe.run[e].data

\* C31: when a condition of a stage is false on the current data, the
\* handler of the stage is not invoked, the stage is recorded SKIPPED, the
\* current data stays as it is and the execution goes on with the next
\* stage; a stage recorded SKIPPED has had no invocation of its handler.
C31_SkippedStage ==
    /\ [](\A e \in 1..MaxRuns : \A n \in 1..Len(pipe.run[e].recorded) :
             pipe.run[e].recorded[n].status = "skipped"
                => Invocations(e, pipe.run[e].recorded[n].idx) = 0)
    /\ [][\A e \in 1..MaxRuns :
             (ConditionFalse(e) /\ pipe'.run[e] # pipe.run[e])
                => /\ pipe'.run[e].calls = pipe.run[e].calls
                   /\ pipe'.run[e].recorded =
                         Append(pipe.run[e].recorded,
                                [idx |-> pipe.run[e].idx,
                                 name |-> pipe.stages[pipe.run[e].idx].name,
                                 status |-> "skipped", error |-> "none"])
                   /\ pipe'.run[e].data = pipe.run[e].data
                   /\ pipe'.run[e].pc = "stage"
                   /\ pipe'.run[e].idx = pipe.run[e].idx + 1]_vars

\* C31 witness: the first stage was skipped, its handler never invoked, the
\* data is the request still, and the second stage has been run.
C31_Witness ==
    \E e \in 1..MaxRuns :
        /\ Len(pipe.run[e].recorded) >= 2
        /\ pipe.run[e].recorded[1].status = "skipped"
        /\ Invocations(e, 1) = 0
        /\ pipe.run[e].recorded[2].status = "completed"
        /\ Invocations(e, 2) = 1

----------------------------------------------------------------------------
(* Claims about the steps of validate_request *)

\* C32: a request rejected because its sender is not among the allowed
\* senders of the policy leaves the rate-limit window of every sender and
\* operation as it was and appends nothing to the audit log, and a request
\* rejected at any step appends nothing to the audit log: an entry is appended
\* only by a call whose request was found valid.
C32_RejectedLeavesNoTrace ==
    [][/\ \A c \in 1..MaxCalls :
             (call[c].pc = "idle" /\ call'[c].pc # "idle")
                => /\ call'[c].verdict = "not authorized"
                        => (rateLog' = rateLog /\ auditLog' = auditLog)
                   /\ call'[c].verdict # "valid" => auditLog' = auditLog
       /\ auditLog' # auditLog
             => \E c \in 1..MaxCalls :
                   /\ call[c].pc = "idle"
                   /\ call'[c].verdict = "valid"
                   /\ auditLog' = Append(auditLog, [sender |-> call'[c].source,
                                                    operation |-> call'[c].type])]_vars

\* C32 witness: athena's execute_code, whose policy requires an audit, was
\* rejected as not authorized after zeus's was audited; the audit log holds
\* only the entry of zeus and the window of athena's key is empty.
C32_Witness ==
    /\ \E c \in 1..MaxCalls :
          /\ call[c].source = "athena"
          /\ call[c].type = "execute_code"
          /\ call[c].verdict = "not authorized"
    /\ auditLog = <<[sender |-> "zeus", operation |-> "execute_code"]>>
    /\ rateLog[<<"athena", "execute_code">>] = 0

----------------------------------------------------------------------------
(* Claims about route_request *)

\* The keyword groups, by position, with a keyword in the serialized request.
Matching(request) ==
    {i \in 1..Len(KeywordDomains) : KeywordDomains[i].keywords \cap Content(request) # {}}

\* The call returned the targets of the rule of the domain.
TargetsOf(domain, result) ==
    /\ result.state = "returned"
    /\ domain \in DOMAIN RoutingTable
    /\ result.primary = RoutingTable[domain].primary_god
    /\ result.fallbacks = RoutingTable[domain].fallback_gods

\* The steps after the mapping: the first keyword group that matches, else
\* the default partner of the sender, else 'orchestrator'.
LaterSteps(request, result) ==
    IF Matching(request) # {}
    THEN \E i \in Matching(request) :
            /\ \A j \in Matching(request) : i <= j
            /\ TargetsOf(KeywordDomains[i].domain, result)
    ELSE /\ result.state = "returned"
         /\ result.fallbacks = <<>>
         /\ result.primary =
               CASE request.from = "zeus" -> "athena"
                 [] request.from \in {"cronos", "lightning"} -> "zeus"
                 [] request.from = "athena" -> "cronos"
                 [] OTHER -> "orchestrator"

\* A step is a call of route_request.
IsRouteCall == customRoutes' # customRoutes /\ customRoutes'.adds = customRoutes.adds

C34_MappingAppendOnly ==
    [][\A t \in RouteTypes :
          customRoutes.mapping[t] # "none"
             => customRoutes'.mapping[t] = customRoutes.mapping[t]]_vars

----------------------------------------------------------------------------
(* Claims about the drain loop *)

\* Message number i waits in a mailbox.
Queued(i) == \E g \in GodSet : \E k \in 1..Len(mQueues[g]) : mQueues[g][k].id = i

\* C35: an exception raised while the drain loop processes a queued message
\* does not end the drain loop: the thread that processed a message is still
\* in its loop afterwards, and while the messenger is running every message
\* waiting in a mailbox, one queued after the message that raised included,
\* is taken out and processed.
C35_DrainSurvivesException ==
    /\ [][\A d \in 1..MaxDrains :
             (mDrain[d].pc = "got" /\ mDrain'[d] # mDrain[d])
                => mDrain'[d].pc \in {"scan", "top"}]_vars
    /\ \A i \in 1..MaxMessages :
          (mRunning /\ mRouter # 0 /\ Queued(i)) ~> (i \in drained)

\* C35 witness: the handling of the unified request raised, and a message
\* sent after it through a mailbox has been processed.
C35_Witness ==
    /\ ur.state = "handled"
    /\ Raises(ur.request)
    /\ \E u, j \in 1..Len(sendLog) :
          /\ sendLog[u].msg.msg_type = "unified_request"
          /\ u < j
          /\ sendLog[j].path = "queue"
          /\ j \in drained

----------------------------------------------------------------------------
(* Claims about the response handler *)

\* C36: a response is not lost to the order of arrival: when handle_response
\* for a registered request id has run before the requester begins
\* wait_for_response, the response waiting in the slot of the request is
\* still what the later wait_for_response returns, not None.
C36_EarlyResponseKept ==
    [][\A c \in 1..MaxCalls :
          (/\ call[c].pc = "wait"
           /\ call'[c].pc # "wait"
           /\ rhSlot[c] # <<>>
           /\ Head(rhSlot[c]).kind = "response")
             => \/ call'[c].pc = "blocked"
                \/ call'[c].result.kind = "response"]_vars

----------------------------------------------------------------------------
(* Claims about start and stop of the messenger *)

\* The _route_messages threads that are alive.
DrainThreads == {d \in DOMAIN mDrain : mDrain[d].pc # "none"}

\* C37: whatever start and stop calls were made on the messenger, at most
\* one drain-loop thread is draining the mailboxes at any time, and when stop
\* returns no drain-loop thread is running.
C37_OneDrainThread ==
    /\ [](Cardinality(DrainThreads) <= 1)
    /\ [][(mCtl = "joining" /\ mCtl' = "idle") => DrainThreads' = {}]_vars

----------------------------------------------------------------------------
(* Claims about send_request_and_wait and the pending entries *)

\* C38: when send_request_and_wait returns, whatever the outcome, the
\* response handler holds no pending entry for the request id the call
\* registered.
C38_NoEntryAfterReturn ==
    [][\A c \in 1..MaxCalls :
          (call[c].wait /\ call[c].pc # "done" /\ call'[c].pc = "done")
             => ~rhPending'[c].present]_vars

----------------------------------------------------------------------------
(* Claims about the targets of route_request *)

\* The primary god and the fallback gods a call of route_request returned.
ReturnedTargets(result) ==
    {result.primary} \cup {result.fallbacks[i] : i \in 1..Len(result.fallbacks)}

\* C39: every target route_request returns, as primary or as fallback, is a
\* member of GODS, a component the messenger has a mailbox for.
C39_TargetsDeliverable ==
    customRoutes.last.state = "returned"
       => ReturnedTargets(customRoutes.last) \subseteq {GODS[i] : i \in 1..Len(GODS)}

----------------------------------------------------------------------------
(* Claims about cancel_request *)

\* C40: cancel_request(id) returns True exactly when a pending entry for id
\* existed at the time of the call, and False otherwise; in both cases no
\* pending entry for id remains after the call.
C40_CancelReturnsExistence ==
    [][Len(rrCancel') > Len(rrCancel) =>
          LET made == rrCancel'[Len(rrCancel')]
          IN  /\ made.ret = made.had
              /\ ~rrPending'[made.id].present]_vars
====
